---- MODULE Spec2Model ----
(***************************************************************************)
(* The connection facade of the DaVinci Resolve MCP server                 *)
(* (src/core/connection.py), its error taxonomy (src/core/errors.py) and   *)
(* the precondition decorators (src/core/decorators.py), together with    *)
(* the external application the facade talks to.                          *)
(*                                                                         *)
(* Python values are modelled as records [kind, id, owner, text, items];   *)
(* None is the record of kind "None", a string is the sequence of its      *)
(* characters in `text`, a list or tuple the sequence of its elements in   *)
(* `items`.  The outcome of a call is a record                             *)
(* [ret, err, msg, ext]: the returned value, the class of the exception    *)
(* that escaped ("" when none did), its message, and the sequence of       *)
(* calls made into the external application during the call.              *)
(***************************************************************************)
EXTENDS Integers, Sequences, FiniteSets, TLC

----------------------------------------------------------------------------
(* Bounds of the model *)

MaxSessions == 2      \* how many times the external application is started
MaxProjects == 2      \* projects the external application can have open
MaxAttempts == 2      \* connect attempts by __init__ that are followed
MaxTimelines == 1     \* timelines a project can have as its current one

----------------------------------------------------------------------------
(* State *)

VARIABLES
    _instance,      \* ResolveConnection._instance: 0 is None, else the object
    _initialized,   \* _instance._initialized
    _resolve,       \* the cached application handle: 0 is None, else a session
    _connection,    \* the module-level _connection: 0 is None, else the object
    pathsSet,       \* _setup_paths ran to its end on the instance
    allocated,      \* ResolveConnection objects created so far
    initAttempts,   \* calls of _connect made by __init__
    returned,       \* objects handed out by get_resolve() / ResolveConnection()
    acquired,       \* what scriptapp("Resolve") gave the latest _connect
    appSession,     \* the running external application: 0 when not running
    sessions,       \* sessions of the external application started so far
    pmOk,           \* GetProjectManager() yields an object
    curProject,     \* the application's current project: 0 when none is open
    curTimeline,    \* the current project's current timeline: 0 when none
    curPage,        \* the application's current page
    pool,           \* the application's media pool: its folders and clips
    last,           \* the most recent call and its outcome
    served          \* what the caller keeps of an earlier call: the object it
                    \* took from its latest property read, or the handle it
                    \* asked to quit

vars == <<_instance, _initialized, _resolve, _connection, pathsSet, allocated,
          initAttempts, returned, acquired, appSession, sessions,
          pmOk, curProject, curTimeline, curPage, pool, last, served>>

facadeVars == <<_instance, _initialized, _resolve, _connection, pathsSet,
                allocated, initAttempts, returned, acquired>>

appVars == <<appSession, sessions, pmOk, curProject, curTimeline, curPage,
             pool>>

----------------------------------------------------------------------------
(* Values and outcomes *)

Obj(k, i, o) == [kind |-> k, id |-> i, owner |-> o, text |-> <<>>, items |-> <<>>]

Str(t) == [kind |-> "str", id |-> 0, owner |-> 0, text |-> t, items |-> <<>>]

List(xs) == [kind |-> "list", id |-> 0, owner |-> 0, text |-> <<>>, items |-> xs]

Tuple(xs) == [kind |-> "tuple", id |-> 0, owner |-> 0, text |-> <<>>, items |-> xs]

None == Obj("None", 0, 0)

Bool(b) == Obj("Bool", IF b THEN 1 ELSE 0, 0)

Returns(v, calls) == [ret |-> v, err |-> "", msg |-> "", ext |-> calls]

Raises(e, m, calls) == [ret |-> None, err |-> e, msg |-> m, ext |-> calls]

(* errors.py: the default message of each condition *)
DefaultMessage(e) ==
    CASE e = "NotConnectedError" -> "Not connected to DaVinci Resolve"
      [] e = "NoProjectError" -> "No project currently open"
      [] e = "NoTimelineError" -> "No timeline currently active"
      [] e = "NoMediaPoolError" -> "Failed to get Media Pool"
      [] OTHER -> "unexpected"

(* The classes derived from ResolveError *)
ResolveErrors ==
    {"NotConnectedError", "NoProjectError", "NoTimelineError",
     "NoMediaPoolError", "ClipNotFoundError", "TimelineItemNotFoundError",
     "InvalidParameterError"}

----------------------------------------------------------------------------
(* The external application, as seen through a handle *)

Projects == 1..MaxProjects

(* A handle answers only while the session it was obtained from is running *)
Alive(h) == h # 0 /\ h = appSession

GetProjectManager(h) ==
    IF Alive(h) /\ pmOk THEN Obj("ProjectManager", 1, h) ELSE None

GetCurrentProject(pm) ==
    IF Alive(pm.owner) /\ curProject # 0
    THEN Obj("Project", curProject, pm.owner)
    ELSE None

GetCurrentTimeline(project) ==
    IF Alive(project.owner) /\ project.id = curProject /\ curTimeline # 0
    THEN Obj("Timeline", curTimeline, project.id)
    ELSE None

(* GetMediaPool, GetGallery, GetMediaStorage, Fusion: the application gives *)
(* the object or nothing; which of the two is an input of the call.         *)
GetLeaf(kind, parent, present) ==
    IF Alive(IF parent.kind = "Resolve" THEN parent.id ELSE parent.owner)
       /\ present
    THEN Obj(kind, 1, parent.id)
    ELSE None

(* The page names the application knows (switch_page's valid_pages) *)
valid_pages ==
    << <<"m", "e", "d", "i", "a">>, <<"c", "u", "t">>, <<"e", "d", "i", "t">>,
       <<"f", "u", "s", "i", "o", "n">>, <<"c", "o", "l", "o", "r">>,
       <<"f", "a", "i", "r", "l", "i", "g", "h", "t">>,
       <<"d", "e", "l", "i", "v", "e", "r">> >>

InList(x, list) == \E i \in DOMAIN list : list[i] = x

(* GetCurrentPage() and OpenPage(name) of the application *)
GetCurrentPage(h) == IF Alive(h) THEN Str(curPage) ELSE None

OpenPage(h, name, accepted) ==
    IF Alive(h) THEN Bool(accepted /\ InList(name, valid_pages)) ELSE None

(* The root folder of the media pool *)
RootFolder == 1

Folder(f) == Obj("Folder", f, 0)

GetRootFolder(mp) == Folder(RootFolder)

(* What the application answers to obj.method(args) *)
Answer(obj, method, args) ==
    CASE method = "GetProjectManager" -> GetProjectManager(obj.id)
      [] method = "GetCurrentProject" -> GetCurrentProject(obj)
      [] method = "GetCurrentTimeline" -> GetCurrentTimeline(obj)
      [] method = "GetMediaPool" -> GetLeaf("MediaPool", obj, args[1])
      [] method = "GetMediaStorage" -> GetLeaf("MediaStorage", obj, args[1])
      [] method = "Fusion" -> GetLeaf("Fusion", obj, args[1])
      [] method = "GetGallery" -> GetLeaf("Gallery", obj, args[1])
      [] method = "GetRootFolder" -> GetRootFolder(obj)
      [] method = "GetProductName" -> Str(<<"R">>)
      [] method = "GetVersionString" -> Str(<<"R", "2", "0">>)
      [] method = "GetCurrentPage" -> GetCurrentPage(obj.id)
      [] method = "OpenPage" -> OpenPage(obj.id, args[1], args[2])
      [] method = "Quit" -> None

(* The statement `pre.method(args)`: not reached when `pre` raised; the     *)
(* call into the application raises when it is the fault-th call of the    *)
(* operation, and yields the application's answer otherwise.               *)
ExtCall(pre, method, args, fault) ==
    IF pre.err # "" THEN pre
    ELSE IF Len(pre.ext) + 1 = fault
    THEN Raises("Exception", "external failure", Append(pre.ext, method))
    ELSE Returns(Answer(pre.ret, method, args), Append(pre.ext, method))

(* `if not x: raise e(m)` after the statement c that produced x *)
OrRaise(c, e, m) ==
    IF c.err = "" /\ c.ret = None THEN Raises(e, m, c.ext) ELSE c

----------------------------------------------------------------------------
(* connection.py: construction and connection *)

SetupOutcomes == {"ok", "raise"}

ConnectOutcomes == {"import_error", "scriptapp_raises", "returned", "info_raises"}

(* What dvr_script.scriptapp("Resolve") hands to _connect: 0 when the       *)
(* import or the call raised or the application is not running.             *)
scriptapp(o) ==
    IF o \in {"returned", "info_raises"} THEN appSession ELSE 0

(* A slip of _connect: a failed attempt leaves the handle it found *)
_connect_keeps(o) ==
    IF o = "returned" /\ appSession # 0 THEN appSession ELSE _resolve

(* _connect: the value of self._resolve when it returns.  The handle is     *)
(* assigned first; any exception raised afterwards inside the try block,    *)
(* the product-name and version calls of the log line included, resets it.  *)
_connect(o) ==
    IF o = "info_raises" /\ scriptapp(o) # 0 THEN 0 ELSE scriptapp(o)

(* __new__: the object the constructor call yields *)
__new__ ==
    IF _instance = 0 THEN allocated + 1 ELSE _instance

(* __init__ returns at once on an initialized instance *)
InitRuns == _instance = 0 \/ ~_initialized

(* ResolveConnection(): __new__, then __init__ on what it returned *)
Constructor(setup, o) ==
    /\ InitRuns /\ setup = "ok" => initAttempts < MaxAttempts
    /\ _instance' = __new__
    /\ allocated' = IF _instance = 0 THEN allocated + 1 ELSE allocated
    /\ _initialized' = TRUE
    /\ IF InitRuns /\ setup = "ok"
       THEN /\ pathsSet' = TRUE
            /\ _resolve' = _connect(o)
            /\ acquired' = scriptapp(o)
            /\ initAttempts' = initAttempts + 1
       ELSE UNCHANGED <<pathsSet, _resolve, acquired, initAttempts>>

(* How many times the constructor call runs _connect *)
ConstructorConnects(setup) == IF InitRuns /\ setup = "ok" THEN 1 ELSE 0

(* The exception of _setup_paths is not caught by __init__ *)
ConstructorOutcome(setup) ==
    IF InitRuns /\ setup = "raise"
    THEN Raises("Exception", "path setup failed", <<>>)
    ELSE Returns(Obj("ResolveConnection", __new__, 0), <<>>)

(* What a caller sees of one call: the operation, its outcome, whether a   *)
(* wrapped handler was invoked, the keyword arguments it was given, how    *)
(* many times the call ran _connect, the handle cached when the call       *)
(* began, and whether the application had the leaf object asked for.       *)
NoKwargs ==
    [conn |-> None, project |-> None, timeline |-> None, media_pool |-> None]

Call(name, r) ==
    [op |-> name, res |-> r, called |-> FALSE, kwargs |-> NoKwargs,
     connects |-> 0, before |-> _resolve, present |-> TRUE, arg |-> <<>>]

(* Nothing taken yet from a property read *)
Unserved == [op |-> "none", ret |-> None]

(* No call is in progress: the caller has taken the previous outcome *)
Idle == Call("none", Returns(None, <<>>))

Handed(r) == IF r.err = "" THEN {r.ret.id} ELSE {}

NewConnection(setup, o) ==
    /\ last = Idle
    /\ Constructor(setup, o)
    /\ last' = [Call("ResolveConnection", ConstructorOutcome(setup))
                EXCEPT !.connects = ConstructorConnects(setup)]
    /\ returned' = returned \cup Handed(ConstructorOutcome(setup))
    /\ UNCHANGED <<_connection, appVars, served>>

(* get_resolve(): constructs on the first call, and keeps the object only  *)
(* when the constructor returned.                                          *)
get_resolve_outcome(setup) ==
    IF _connection = 0
    THEN ConstructorOutcome(setup)
    ELSE Returns(Obj("ResolveConnection", _connection, 0), <<>>)

get_resolve_effect(setup, o) ==
    /\ IF _connection = 0
       THEN /\ Constructor(setup, o)
            /\ _connection' = IF ConstructorOutcome(setup).err = ""
                              THEN __new__ ELSE 0
       ELSE UNCHANGED <<_instance, _initialized, _resolve, _connection,
                        pathsSet, allocated, initAttempts, acquired>>
    /\ returned' = returned \cup Handed(get_resolve_outcome(setup))

get_resolve_connects(setup) ==
    IF _connection = 0 THEN ConstructorConnects(setup) ELSE 0

get_resolve(setup, o) ==
    /\ last = Idle
    /\ get_resolve_effect(setup, o)
    /\ last' = [Call("get_resolve", get_resolve_outcome(setup))
                EXCEPT !.connects = get_resolve_connects(setup)]
    /\ UNCHANGED <<appVars, served>>

(* is_connected *)
is_connected(h) == h # 0

(* reconnect(): _connect, then is_connected of the new state *)
reconnect(o) ==
    /\ last = Idle
    /\ returned # {}
    /\ _resolve' = _connect(o)
    /\ acquired' = scriptapp(o)
    /\ last' = [Call("reconnect", Returns(Bool(is_connected(_resolve')), <<>>))
                EXCEPT !.connects = 1]
    /\ UNCHANGED <<_instance, _initialized, _connection, pathsSet, allocated,
                   initAttempts, returned, appVars, served>>

----------------------------------------------------------------------------
(* connection.py: the accessor properties; h is self._resolve *)

MaxFault == 1         \* which call into the application raises (0: none)

Faults == 0..MaxFault

(* A slip of resolve: the handle is handed out unchecked *)
resolve_unchecked(h) == Returns(Obj("Resolve", h, 0), <<>>)

(* resolve: the handle, or not-connected *)
resolve(h) ==
    IF h = 0
    THEN Raises("NotConnectedError", DefaultMessage("NotConnectedError"), <<>>)
    ELSE Returns(Obj("Resolve", h, 0), <<>>)

(* project_manager *)
project_manager(h, fault) ==
    OrRaise(ExtCall(resolve(h), "GetProjectManager", <<>>, fault),
            "NotConnectedError", "Failed to get Project Manager")

(* Slips of current_project: the wrong condition for a missing project *)
current_project_no_timeline(h, fault) ==
    OrRaise(ExtCall(project_manager(h, fault), "GetCurrentProject", <<>>, fault),
            "NoTimelineError", DefaultMessage("NoTimelineError"))

current_project_not_connected(h, fault) ==
    OrRaise(ExtCall(project_manager(h, fault), "GetCurrentProject", <<>>, fault),
            "NotConnectedError", DefaultMessage("NotConnectedError"))

(* A slip of current_project: the project read before is kept and served *)
current_project_cached(h, fault) ==
    IF served.op = "current_project" THEN Returns(served.ret, <<>>)
    ELSE OrRaise(ExtCall(project_manager(h, fault), "GetCurrentProject", <<>>,
                         fault),
                 "NoProjectError", DefaultMessage("NoProjectError"))

(* current_project *)
current_project(h, fault) ==
    OrRaise(ExtCall(project_manager(h, fault), "GetCurrentProject", <<>>, fault),
            "NoProjectError", DefaultMessage("NoProjectError"))

(* media_pool *)
media_pool(h, fault, present) ==
    OrRaise(ExtCall(current_project(h, fault), "GetMediaPool", <<present>>, fault),
            "NoMediaPoolError", DefaultMessage("NoMediaPoolError"))

(* current_timeline *)
current_timeline(h, fault) ==
    OrRaise(ExtCall(current_project(h, fault), "GetCurrentTimeline", <<>>, fault),
            "NoTimelineError", DefaultMessage("NoTimelineError"))

(* media_storage: what GetMediaStorage() gave, unchecked *)
media_storage(h, fault, present) ==
    ExtCall(resolve(h), "GetMediaStorage", <<present>>, fault)

(* fusion: what Fusion() gave, unchecked *)
fusion(h, fault, present) ==
    ExtCall(resolve(h), "Fusion", <<present>>, fault)

(* gallery: what GetGallery() of the current project gave, unchecked *)
gallery(h, fault, present) ==
    ExtCall(current_project(h, fault), "GetGallery", <<present>>, fault)

Properties ==
    {"is_connected", "resolve", "project_manager", "current_project",
     "media_pool", "current_timeline", "media_storage", "fusion", "gallery"}

(* The operations whose last call asks the application for a leaf object *)
LeafReaders ==
    {"media_pool", "media_storage", "fusion", "gallery", "require_media_pool",
     "get_all_clips", "get_all_folders", "find_clip_by_name",
     "find_folder_by_name"}

PresentInputs(name) == IF name \in LeafReaders THEN BOOLEAN ELSE {TRUE}

(* The outcome of reading property `prop` of the connection *)
Property(h, prop, fault, present) ==
    CASE prop = "is_connected" -> Returns(Bool(is_connected(h)), <<>>)
      [] prop = "resolve" -> resolve(h)
      [] prop = "project_manager" -> project_manager(h, fault)
      [] prop = "current_project" -> current_project(h, fault)
      [] prop = "media_pool" -> media_pool(h, fault, present)
      [] prop = "current_timeline" -> current_timeline(h, fault)
      [] prop = "media_storage" -> media_storage(h, fault, present)
      [] prop = "fusion" -> fusion(h, fault, present)
      [] prop = "gallery" -> gallery(h, fault, present)

(* A slip of the accessors: a read that finds no handle connects again *)
Access_reconnects(prop, fault, present) ==
    /\ last = Idle
    /\ returned # {}
    /\ _resolve' = IF _resolve = 0 THEN appSession ELSE _resolve
    /\ last' = [Call(prop, Property(_resolve', prop, fault, present))
                EXCEPT !.present = present]
    /\ UNCHANGED <<_instance, _initialized, _connection, pathsSet, allocated,
                   initAttempts, returned, acquired, appVars, served>>

(* A caller that holds the connection reads one of its properties *)
Access(prop, fault, present) ==
    /\ last = Idle
    /\ returned # {}
    /\ last' = [Call(prop, Property(_resolve, prop, fault, present))
                EXCEPT !.present = present]
    /\ UNCHANGED <<facadeVars, appVars, served>>

----------------------------------------------------------------------------
(* connection.py: utility methods *)

UpperCase ==
    <<"A", "B", "C", "D", "E", "F", "G", "H", "I", "J", "K", "L", "M",
      "N", "O", "P", "Q", "R", "S", "T", "U", "V", "W", "X", "Y", "Z">>

LowerCase ==
    <<"a", "b", "c", "d", "e", "f", "g", "h", "i", "j", "k", "l", "m",
      "n", "o", "p", "q", "r", "s", "t", "u", "v", "w", "x", "y", "z">>

LowerChar(c) ==
    IF \E i \in DOMAIN UpperCase : UpperCase[i] = c
    THEN LowerCase[CHOOSE i \in DOMAIN UpperCase : UpperCase[i] = c]
    ELSE c

(* str.lower() *)
lower(t) == [i \in DOMAIN t |-> LowerChar(t[i])]

(* Python truthiness of a value: None and the empty string are false *)
Truthy(v) ==
    /\ v.kind # "None"
    /\ v.kind = "str" => v.text # <<>>
    /\ v.kind = "list" => v.items # <<>>

(* The application's page after OpenPage(name) *)
PageAfter(h, name, accepted, page) ==
    IF OpenPage(h, name, accepted) = Bool(TRUE) THEN name ELSE page

(* get_version(): product name and version string of the application *)
get_version(h, fault) ==
    ExtCall(ExtCall(resolve(h), "GetProductName", <<>>, fault),
            "GetVersionString", <<>>, fault)

(* get_current_page() *)
get_current_page(h, fault) ==
    ExtCall(resolve(h), "GetCurrentPage", <<>>, fault)

(* switch_page(page): the page name is validated before the handle is read *)
switch_page(h, page, fault, accepted) ==
    IF ~InList(lower(page), valid_pages)
    THEN Raises("ValueError", "Invalid page. Must be one of: ...", <<>>)
    ELSE ExtCall(resolve(h), "OpenPage", <<lower(page), accepted>>, fault)

(* Whether switch_page reached the application's OpenPage *)
Forwarded(r) == r.ext # <<>> /\ r.err = ""

(* The outcomes of path setup and of _connect that a call can meet: they  *)
(* are met only by the call that runs __init__ to its connect attempt.    *)
SetupInputs == IF _connection = 0 /\ InitRuns THEN SetupOutcomes ELSE {"ok"}

ConnectInputs == IF _connection = 0 /\ InitRuns THEN ConnectOutcomes ELSE {"returned"}

(* Page names a caller passes *)
PageArgs ==
    { <<"e", "d", "i", "t">>, <<"C", "o", "l", "o", "r">>, <<"x">>, <<>> }

GetVersion(fault) ==
    /\ last = Idle
    /\ returned # {}
    /\ last' = Call("get_version", get_version(_resolve, fault))
    /\ UNCHANGED <<facadeVars, appVars, served>>

GetPage(fault) ==
    /\ last = Idle
    /\ returned # {}
    /\ last' = Call("get_current_page", get_current_page(_resolve, fault))
    /\ UNCHANGED <<facadeVars, appVars, served>>

SwitchPage(page, fault, accepted) ==
    /\ last = Idle
    /\ returned # {}
    /\ last' = [Call("switch_page", switch_page(_resolve, page, fault, accepted))
                EXCEPT !.arg = page]
    /\ curPage' = IF Forwarded(switch_page(_resolve, page, fault, accepted))
                  THEN PageAfter(_resolve, lower(page), accepted, curPage)
                  ELSE curPage
    /\ UNCHANGED <<facadeVars, appSession, sessions, pmOk, curProject,
                   curTimeline>>
    /\ UNCHANGED <<pool, served>>

----------------------------------------------------------------------------
(* The media pool and the timelines of the application *)

(* Per folder, its sub-folders and its clips, in the application's order *)
PoolSubFolders == << <<2, 3>>, <<4>>, <<>>, <<>> >>

PoolClips == << <<1>>, <<2, 3>>, <<>>, <<4>> >>

(* Folders for which GetSubFolderList() / GetClipList() give None *)
PoolNoSubFolderList == {4}

PoolNoClipList == {3}

FolderNames ==
    << <<"M", "a", "s", "t", "e", "r">>, <<"b", "i", "n">>,
       <<"r", "o", "o", "t">>, <<"b", "i", "n">> >>

ClipNames == << <<"a">>, <<"b">>, <<"a">>, <<"c">> >>

Clip(c) == Obj("Clip", c, 0)

(* The media pool the application has unless another one is drawn *)
DefaultPool ==
    [subs |-> PoolSubFolders, clips |-> PoolClips,
     noSubs |-> PoolNoSubFolderList, noClips |-> PoolNoClipList,
     folderNames |-> FolderNames, clipNames |-> ClipNames]

GetSubFolderList(folder) ==
    IF folder.id \in pool.noSubs THEN None
    ELSE List([i \in DOMAIN pool.subs[folder.id] |->
                  Folder(pool.subs[folder.id][i])])

GetClipList(folder) ==
    IF folder.id \in pool.noClips THEN None
    ELSE List([i \in DOMAIN pool.clips[folder.id] |->
                  Clip(pool.clips[folder.id][i])])

GetName(x) ==
    CASE x.kind = "Folder" -> Str(pool.folderNames[x.id])
      [] x.kind = "Clip" -> Str(pool.clipNames[x.id])
      [] OTHER -> Str(<<"t", "l">>)

(* The tracks of a timeline: per track type, per track, its items *)
(* A slip of the scan: the track types are taken in the opposite order *)
TrackTypes_reversed == <<"subtitle", "audio", "video">>

TrackTypes == <<"video", "audio", "subtitle">>

TrackItems ==
    [video |-> << <<1, 2>>, <<3>> >>, audio |-> << <<>>, <<4, 5>> >>,
     subtitle |-> << <<6, 7>> >>]

(* Tracks for which GetItemListInTrack() gives None *)
NoItemList == { <<"audio", 1>> }

UniqueIds ==
    << <<"u", "1">>, <<"u", "2">>, <<"u", "2">>, <<"u", "4">>, <<"u", "5">>,
       <<"u", "5">>, <<"u", "7">> >>

GetTrackCount(timeline, type) == Len(TrackItems[type])

GetItemListInTrack(timeline, type, idx) ==
    IF <<type, idx>> \in NoItemList THEN None
    ELSE List([i \in DOMAIN TrackItems[type][idx] |->
                  Obj("TimelineItem", TrackItems[type][idx][i], timeline.id)])

GetUniqueId(item) == Str(UniqueIds[item.id])

(* The timelines of a project by 1-based index, and where there is none *)
TimelineNames == << <<"t", "l">>, <<"c", "u", "t">>, <<"t", "l">> >>

NoTimelineAt == {2}

GetTimelineCount(project) == Len(TimelineNames)

GetTimelineByIndex(project, i) ==
    IF i \in NoTimelineAt THEN None ELSE Obj("Timeline", i, project.id)

TimelineName(t) == Str(TimelineNames[t.id])

----------------------------------------------------------------------------
(* connection.py: the lookup helpers *)

(* The concatenation of the sequences of a sequence *)
RECURSIVE Flatten(_)
Flatten(ss) == IF ss = <<>> THEN <<>> ELSE Head(ss) \o Flatten(Tail(ss))

(* `x or []` for a list the application may not give *)
OrEmpty(l) == IF Truthy(l) THEN l.items ELSE <<>>

(* Slips of the traversals: the recursion into the sub-folders is left out *)
ClipsFrom_own(folder) == OrEmpty(GetClipList(folder))

FoldersFrom_children(folder) == <<folder>> \o OrEmpty(GetSubFolderList(folder))

(* get_all_clips(folder) for a given folder: its clips, then those of its  *)
(* sub-folders                                                             *)
RECURSIVE ClipsFrom(_)
ClipsFrom(folder) ==
    LET subs == OrEmpty(GetSubFolderList(folder))
    IN  OrEmpty(GetClipList(folder))
        \o Flatten([i \in DOMAIN subs |-> ClipsFrom(subs[i])])

(* get_all_folders(folder) for a given folder *)
RECURSIVE FoldersFrom(_)
FoldersFrom(folder) ==
    LET subs == OrEmpty(GetSubFolderList(folder))
    IN  <<folder>> \o Flatten([i \in DOMAIN subs |-> FoldersFrom(subs[i])])

(* A slip of the scan: the last match is taken *)
FirstMatch_last(xs, hits) ==
    IF hits # {}
    THEN xs[CHOOSE i \in hits : \A j \in hits : i >= j]
    ELSE None

(* The first element of xs whose index is in hits, or None *)
FirstMatch(xs, hits) ==
    IF hits # {}
    THEN xs[CHOOSE i \in hits : \A j \in hits : i <= j]
    ELSE None

(* The calls a traversal makes on each folder it visits *)
Visits(what, folders) ==
    Flatten([i \in DOMAIN folders |->
                IF what = "clips" THEN <<"GetClipList", "GetSubFolderList">>
                ELSE <<"GetSubFolderList">>])

(* The body of get_all_clips / get_all_folders once the folder is known *)
Collect(what, folder) ==
    IF folder.err # "" THEN folder
    ELSE Returns(List(IF what = "clips" THEN ClipsFrom(folder.ret)
                      ELSE FoldersFrom(folder.ret)),
                 folder.ext \o Visits(what, FoldersFrom(folder.ret)))

(* `if folder is None: folder = self.media_pool.GetRootFolder()` *)
StartFolder(h, fault, present, folder) ==
    IF folder = None
    THEN ExtCall(media_pool(h, fault, present), "GetRootFolder", <<>>, fault)
    ELSE Returns(folder, <<>>)

(* get_all_clips(folder=None) *)
get_all_clips(h, fault, present, folder) ==
    Collect("clips", StartFolder(h, fault, present, folder))

(* get_all_folders(folder=None) *)
get_all_folders(h, fault, present, folder) ==
    Collect("folders", StartFolder(h, fault, present, folder))

(* The loop `for x in all: if x.GetName() == name: return x`, then None *)
FirstNamed(all, name) ==
    IF all.err # "" THEN all
    ELSE Returns(FirstMatch(all.ret.items,
                     {i \in DOMAIN all.ret.items :
                         GetName(all.ret.items[i]) = Str(name)}), all.ext)

(* find_clip_by_name(name) *)
find_clip_by_name(h, fault, present, name) ==
    FirstNamed(get_all_clips(h, fault, present, None), name)

RootAliases == { <<"r", "o", "o", "t">>, <<"m", "a", "s", "t", "e", "r">> }

(* A slip of find_folder_by_name: the aliases of the root are scanned for *)
find_folder_by_name_scan(h, fault, present, name) ==
    FirstNamed(get_all_folders(h, fault, present, None), name)

(* find_folder_by_name(name) *)
find_folder_by_name(h, fault, present, name) ==
    IF lower(name) \in RootAliases
    THEN ExtCall(media_pool(h, fault, present), "GetRootFolder", <<>>, fault)
    ELSE FirstNamed(get_all_folders(h, fault, present, None), name)

(* The items of a timeline in scan order, each with its track type and     *)
(* track index                                                             *)
ScanOrder(timeline) ==
    Flatten([k \in DOMAIN TrackTypes |->
        Flatten([idx \in 1..GetTrackCount(timeline, TrackTypes[k]) |->
            LET items == OrEmpty(GetItemListInTrack(timeline, TrackTypes[k], idx))
            IN  [i \in DOMAIN items |->
                    Tuple(<<items[i], Str(<<TrackTypes[k]>>), Obj("int", idx, 0)>>)]])])

(* The loops of find_timeline_item_by_id over the tracks of timeline t *)
FirstWithId(t, item_id) ==
    IF t.err # "" THEN t
    ELSE Returns(FirstMatch(ScanOrder(t.ret),
                     {i \in DOMAIN ScanOrder(t.ret) :
                         GetUniqueId(ScanOrder(t.ret)[i].items[1]) = Str(item_id)}),
                 t.ext)

(* find_timeline_item_by_id(item_id) *)
find_timeline_item_by_id(h, fault, item_id) ==
    FirstWithId(current_timeline(h, fault), item_id)

(* The timelines of a project by index 1 .. GetTimelineCount() *)
TimelinesOf(project) ==
    [i \in 1..GetTimelineCount(project) |-> GetTimelineByIndex(project, i)]

(* The loop of find_timeline_by_name *)
FirstTimelineNamed(p, name) ==
    IF p.err # "" THEN p
    ELSE Returns(FirstMatch(TimelinesOf(p.ret),
                     {i \in DOMAIN TimelinesOf(p.ret) :
                         /\ Truthy(TimelinesOf(p.ret)[i])
                         /\ TimelineName(TimelinesOf(p.ret)[i]) = Str(name)}),
                 p.ext)

(* find_timeline_by_name(name) *)
find_timeline_by_name(h, fault, name) ==
    FirstTimelineNamed(current_project(h, fault), name)

Helpers ==
    {"get_all_clips", "get_all_folders", "find_clip_by_name",
     "find_folder_by_name", "find_timeline_item_by_id", "find_timeline_by_name"}

(* The folder argument of get_all_clips / get_all_folders: <<>> when it is *)
(* omitted, else a folder of the media pool                               *)
FolderArgs == { <<>> } \cup { <<f>> : f \in DOMAIN pool.subs }

FolderArg(arg) == IF arg = <<>> THEN None ELSE Folder(arg[1])

(* Names and identifiers a caller looks up *)
NameArgs(name) ==
    CASE name = "find_clip_by_name" -> { <<"a">>, <<"A">>, <<"z">> }
      [] name = "find_folder_by_name" ->
            { <<"b", "i", "n">>, <<"R", "o", "o", "t">>,
              <<"M", "A", "S", "T", "E", "R">>, <<"z">> }
      [] name = "find_timeline_item_by_id" ->
            { <<"u", "2">>, <<"u", "5">>, <<"u", "7">>, <<"z">> }
      [] name = "find_timeline_by_name" -> { <<"t", "l">>, <<"z">> }
      [] OTHER -> FolderArgs

Helper(name, h, fault, present, arg) ==
    CASE name = "get_all_clips" ->
            get_all_clips(h, fault, present, FolderArg(arg))
      [] name = "get_all_folders" ->
            get_all_folders(h, fault, present, FolderArg(arg))
      [] name = "find_clip_by_name" -> find_clip_by_name(h, fault, present, arg)
      [] name = "find_folder_by_name" -> find_folder_by_name(h, fault, present, arg)
      [] name = "find_timeline_item_by_id" -> find_timeline_item_by_id(h, fault, arg)
      [] name = "find_timeline_by_name" -> find_timeline_by_name(h, fault, arg)

(* A caller that holds the connection runs one of its lookup helpers *)
Lookup(name, fault, present, arg) ==
    /\ last = Idle
    /\ returned # {}
    /\ last' = [Call(name, Helper(name, _resolve, fault, present, arg))
                EXCEPT !.present = present, !.arg = arg]
    /\ UNCHANGED <<facadeVars, appVars, served>>

----------------------------------------------------------------------------
(* decorators.py: the precondition injectors and the page wrapper *)

HandlerOutcomes == {"returns", "resolve_error", "exception"}

(* The wrapped handler: it returns, or raises a domain or another failure *)
Handler(hres) ==
    CASE hres = "returns" -> Returns(Str(<<"o", "k">>), <<>>)
      [] hres = "resolve_error" -> Raises("ClipNotFoundError", "Clip not found", <<>>)
      [] hres = "exception" -> Raises("Exception", "handler failed", <<>>)

(* s carried out after r: the calls of r come first *)
After(r, s) == [s EXCEPT !.ext = r.ext \o s.ext]

(* The fault index as the operation that follows r counts it *)
Shift(fault, r) == IF fault > Len(r.ext) THEN fault - Len(r.ext) ELSE 0

Failed(r) == [res |-> r, called |-> FALSE, kwargs |-> NoKwargs]

(* A wrapper's call as the caller sees it *)
Wrapped(name, w, n) ==
    [op |-> name, res |-> w.res, called |-> w.called, kwargs |-> w.kwargs,
     connects |-> n, before |-> _resolve, present |-> TRUE, arg |-> <<>>]

Invoked(kw, pre, hres) ==
    [res |-> After(pre, Handler(hres)), called |-> TRUE, kwargs |-> kw]

NotConnected ==
    Raises("NotConnectedError", DefaultMessage("NotConnectedError"), <<>>)

(* A slip of require_resolve: the connection state is not looked at *)
require_resolve_unchecked(conn, h, hres) ==
    Invoked([NoKwargs EXCEPT !.conn = conn], Returns(None, <<>>), hres)

(* require_resolve *)
require_resolve(conn, h, hres) ==
    IF ~is_connected(h) THEN Failed(NotConnected)
    ELSE Invoked([NoKwargs EXCEPT !.conn = conn], Returns(None, <<>>), hres)

(* The injection of the object that x read under keyword `key` and the    *)
(* call of the handler, or the failure of the read                        *)
Inject(kw, key, x, hres) ==
    IF x.err # "" THEN Failed(x)
    ELSE Invoked([kw EXCEPT ![key] = x.ret], x, hres)

(* require_project *)
require_project(conn, h, fault, hres) ==
    IF ~is_connected(h) THEN Failed(NotConnected)
    ELSE Inject([NoKwargs EXCEPT !.conn = conn], "project",
                current_project(h, fault), hres)

(* After project = conn.current_project: the read of the second property *)
SecondRead(key, h, fault, present) ==
    IF key = "timeline" THEN current_timeline(h, fault)
    ELSE media_pool(h, fault, present)

(* The wrappers that read current_project and then a second property *)
InjectBoth(conn, p, key, h, fault, present, hres) ==
    IF p.err # "" THEN Failed(p)
    ELSE Inject([NoKwargs EXCEPT !.conn = conn, !.project = p.ret], key,
                After(p, SecondRead(key, h, Shift(fault, p), present)), hres)

(* A slip of require_timeline: the project is neither read nor injected *)
require_timeline_alone(conn, h, fault, hres) ==
    IF ~is_connected(h) THEN Failed(NotConnected)
    ELSE Inject([NoKwargs EXCEPT !.conn = conn], "timeline",
                current_timeline(h, fault), hres)

(* require_timeline *)
require_timeline(conn, h, fault, hres) ==
    IF ~is_connected(h) THEN Failed(NotConnected)
    ELSE InjectBoth(conn, current_project(h, fault), "timeline", h, fault,
                    TRUE, hres)

(* require_media_pool *)
require_media_pool(conn, h, fault, present, hres) ==
    IF ~is_connected(h) THEN Failed(NotConnected)
    ELSE InjectBoth(conn, current_project(h, fault), "media_pool", h, fault,
                    present, hres)

Injectors ==
    {"require_resolve", "require_project", "require_timeline",
     "require_media_pool"}

Injector(d, conn, h, fault, present, hres) ==
    CASE d = "require_resolve" -> require_resolve(conn, h, hres)
      [] d = "require_project" -> require_project(conn, h, fault, hres)
      [] d = "require_timeline" -> require_timeline(conn, h, fault, hres)
      [] d = "require_media_pool" -> require_media_pool(conn, h, fault, present, hres)

(* A call of a handler wrapped by injector d: get_resolve() comes first *)
Decorated(d, setup, o, fault, present, hres) ==
    /\ last = Idle
    /\ get_resolve_effect(setup, o)
    /\ LET g == get_resolve_outcome(setup)
       IN  last' = [Wrapped(d,
                           IF g.err # "" THEN Failed(g)
                           ELSE Injector(d, g.ret, _resolve', fault, present, hres),
                           get_resolve_connects(setup))
                    EXCEPT !.present = present]
    /\ UNCHANGED <<appVars, served>>

(* The string f"Error: {e}" for an exception with message msg *)
ErrorString(msg) == Str(<<"Error: ", msg>>)

(* A slip of handle_resolve_errors: only the domain errors are caught *)
handle_resolve_errors_domain(w) ==
    IF w.res.err \in ResolveErrors
    THEN [w EXCEPT !.res = Returns(ErrorString(w.res.msg), w.res.ext)]
    ELSE w

(* handle_resolve_errors around a call with outcome w: what the wrapped    *)
(* function returns, or the error string for what it raises                *)
handle_resolve_errors(w) ==
    IF w.res.err # ""
    THEN [w EXCEPT !.res = Returns(ErrorString(w.res.msg), w.res.ext)]
    ELSE w

(* A call of a tool: a handler under injector d under                      *)
(* handle_resolve_errors                                                   *)
Tool(d, setup, o, fault, present, hres) ==
    /\ last = Idle
    /\ get_resolve_effect(setup, o)
    /\ LET g == get_resolve_outcome(setup)
       IN  last' = [Wrapped("handle_resolve_errors",
                           handle_resolve_errors(
                               IF g.err # "" THEN Failed(g)
                               ELSE Injector(d, g.ret, _resolve', fault,
                                             present, hres)),
                           get_resolve_connects(setup))
                    EXCEPT !.present = present, !.arg = <<d, hres>>]
    /\ UNCHANGED <<appVars, served>>

(* A slip of with_page: the recorded page is reopened whenever it is       *)
(* non-empty                                                               *)
Restores_nonempty(original_page, page) == Truthy(original_page)

(* with_page's `if original_page and original_page != page` *)
Restores(original_page, page) ==
    Truthy(original_page) /\ original_page # Str(page)

(* A slip of with_page: the page is reopened after the handler's return   *)
(* only                                                                    *)
Finally_on_return(f, restores) == restores /\ f.err = ""

(* with_page's finally block runs however the try block f was left *)
Finally(f, restores) == restores

(* One step of a wrapper: a call of switch_page(page) or of the handler *)
Step(what, page) == <<what, page>>

(* with_page(page): the page is recorded, the target opened when it        *)
(* differs, the handler run, and in the finally block the recorded page    *)
(* reopened when it is non-empty and differs from the target.  `recorded`  *)
(* is original_page (`entered`: get_current_page returned it), `during`    *)
(* the application's page while the handler runs, `trace` the wrapper's    *)
(* calls of switch_page and of the handler, `back` the outcome of the      *)
(* switch in the finally block.                                            *)
with_page(h, page, fault, acc1, acc2, hres) ==
    LET g == get_current_page(h, fault)
        original_page == g.ret
        differs == original_page # Str(page)
        to == switch_page(h, page, Shift(fault, g), acc1)
        s1 == IF differs THEN After(g, to) ELSE g
        page1 == IF differs /\ Forwarded(to)
                 THEN PageAfter(h, lower(page), acc1, curPage) ELSE curPage
        f == IF s1.err = "" THEN After(s1, Handler(hres)) ELSE s1
        restores == Finally(f, Restores(original_page, page))
        back == switch_page(h, original_page.text, Shift(fault, f), acc2)
        s2 == After(f, back)
        page2 == IF restores /\ Forwarded(back)
                 THEN PageAfter(h, lower(original_page.text), acc2, page1)
                 ELSE page1
        trace == (IF differs THEN <<Step("switch_page", page)>> ELSE <<>>)
                 \o (IF s1.err = "" THEN <<Step("handler", <<>>)>> ELSE <<>>)
                 \o (IF restores
                     THEN <<Step("switch_page", original_page.text)>>
                     ELSE <<>>)
    IN  IF g.err # ""
        THEN [res |-> g, called |-> FALSE, kwargs |-> NoKwargs, page |-> curPage,
              entered |-> FALSE, recorded |-> None, during |-> curPage,
              trace |-> <<>>, back |-> Returns(None, <<>>)]
        ELSE [res |-> IF restores /\ s2.err # "" THEN s2
                      ELSE IF restores THEN [f EXCEPT !.ext = s2.ext] ELSE f,
              called |-> s1.err = "", kwargs |-> NoKwargs, page |-> page2,
              entered |-> TRUE, recorded |-> original_page, during |-> page1,
              trace |-> trace,
              back |-> IF restores THEN back ELSE Returns(None, <<>>)]

(* A call of a handler under with_page(page); once the page is recorded    *)
(* the call's record keeps the target, the recorded page, the page during *)
(* the handler, the wrapper's steps, the handler's outcome and the outcome *)
(* of the switch back                                                      *)
WithPage(setup, o, page, fault, acc1, acc2, hres) ==
    /\ last = Idle
    /\ get_resolve_effect(setup, o)
    /\ LET g == get_resolve_outcome(setup)
           w == with_page(_resolve', page, fault, acc1, acc2, hres)
       IN  IF g.err # ""
           THEN /\ last' = Wrapped("with_page", Failed(g),
                                    get_resolve_connects(setup))
                /\ curPage' = curPage
           ELSE /\ last' = [Wrapped("with_page", w, get_resolve_connects(setup))
                            EXCEPT !.arg = IF w.entered
                                           THEN <<page, w.recorded, w.during,
                                                  w.trace, Handler(hres),
                                                  w.back>>
                                           ELSE <<>>]
                /\ curPage' = w.page
    /\ UNCHANGED <<appSession, sessions, pmOk, curProject, curTimeline>>
    /\ UNCHANGED <<pool, served>>

----------------------------------------------------------------------------
(* decorators.py: require_timeline / require_media_pool statement by       *)
(* statement: `project = conn.current_project` and the read of the second *)
(* property are separate calls into the application, which goes on in      *)
(* between                                                                 *)

TwoReads == {"require_timeline", "require_media_pool"}

SecondKey(d) == IF d = "require_timeline" THEN "timeline" ELSE "media_pool"

(* conn = get_resolve(); the connection check; project = conn.current_project *)
FirstRead(d) ==
    /\ last = Idle
    /\ _connection # 0
    /\ last' = IF ~is_connected(_resolve)
               THEN Wrapped(d, Failed(NotConnected), 0)
               ELSE IF current_project(_resolve, 0).err # ""
               THEN Wrapped(d, Failed(current_project(_resolve, 0)), 0)
               ELSE [Call("reading", current_project(_resolve, 0))
                     EXCEPT !.arg = d]
    /\ UNCHANGED <<facadeVars, appVars, served>>

(* The application's current project and timeline change while the        *)
(* wrapper is between its two reads                                        *)
Meanwhile(p, t) ==
    /\ last.op = "reading"
    /\ appSession # 0
    /\ <<p, t>> # <<curProject, curTimeline>>
    /\ curProject' = p
    /\ curTimeline' = t
    /\ UNCHANGED <<last, pool, served>>
    /\ UNCHANGED <<facadeVars, appSession, sessions, pmOk, curPage>>

(* timeline = conn.current_timeline / media_pool = conn.media_pool, the    *)
(* keyword arguments and the call of the handler                          *)
SecondReadAndCall(present, hres) ==
    /\ last.op = "reading"
    /\ last' = [Wrapped(last.arg,
                        InjectBoth(Obj("ResolveConnection", _connection, 0),
                                   last.res, SecondKey(last.arg), _resolve, 0,
                                   present, hres),
                        0)
                EXCEPT !.present = present]
    /\ UNCHANGED <<facadeVars, appVars, served>>

----------------------------------------------------------------------------
(* tools/resolve.py: quit_resolve, under handle_resolve_errors and         *)
(* require_resolve                                                         *)

(* The body of quit_resolve: conn.resolve.Quit() and the message *)
quit_resolve(h, fault) ==
    IF ExtCall(resolve(h), "Quit", <<>>, fault).err # ""
    THEN ExtCall(resolve(h), "Quit", <<>>, fault)
    ELSE Returns(Str(<<"DaVinci Resolve is quitting">>), <<"Quit">>)

(* Quit() reached the running application *)
Quits(h, fault) == is_connected(h) /\ Alive(h) /\ fault # 1

(* A call of the tool quit_resolve: the application exits when Quit()      *)
(* reaches it; nothing of the connection is changed                        *)
QuitResolve(fault) ==
    /\ last = Idle
    /\ _connection # 0
    /\ last' = [Wrapped("quit_resolve",
                        handle_resolve_errors(
                            IF ~is_connected(_resolve) THEN Failed(NotConnected)
                            ELSE [res |-> quit_resolve(_resolve, fault),
                                  called |-> TRUE,
                                  kwargs |-> [NoKwargs EXCEPT !.conn =
                                      Obj("ResolveConnection", _connection, 0)]]),
                        0)
                EXCEPT !.arg = <<"require_resolve", "quit_resolve">>]
    /\ IF Quits(_resolve, fault)
       THEN /\ appSession' = 0
            /\ pmOk' = TRUE
            /\ curProject' = 0
            /\ curTimeline' = 0
            /\ curPage' = <<>>
            /\ served' = [op |-> "quit_resolve", ret |-> Obj("Resolve", _resolve, 0)]
       ELSE UNCHANGED <<appSession, pmOk, curProject, curTimeline, curPage,
                        served>>
    /\ UNCHANGED <<facadeVars, sessions, pool>>

----------------------------------------------------------------------------
(* tools/gallery.py: export_stills and delete_stills, from the album       *)
(* lookup on                                                               *)

MaxStills == 2        \* stills of an album
MaxIndices == 2       \* indices in one request

Still(i) == Obj("Still", i, 0)

(* target_album.GetStills(): the stills at list positions 0 .. n - 1 *)
GetStills(n) == List([i \in 1..n |-> Still(i)])

(* stills[idx] of Python: a negative idx counts from the end, and an idx   *)
(* outside -len .. len - 1 raises IndexError                               *)
Subscript(stills, idx) ==
    IF idx >= 0 /\ idx < Len(stills) THEN Returns(stills[idx + 1], <<>>)
    ELSE IF idx < 0 /\ idx >= 0 - Len(stills)
    THEN Returns(stills[Len(stills) + idx + 1], <<>>)
    ELSE Raises("IndexError", "list index out of range", <<>>)

(* The loop `for idx in still_indices: if idx < len(stills): ...append`:   *)
(* the list built, or the exception that ended the loop                    *)
RECURSIVE Chosen(_, _, _)
Chosen(stills, still_indices, acc) ==
    IF still_indices = <<>> THEN Returns(List(acc), <<>>)
    ELSE IF ~(Head(still_indices) < Len(stills))
    THEN Chosen(stills, Tail(still_indices), acc)
    ELSE IF Subscript(stills, Head(still_indices)).err # ""
    THEN Subscript(stills, Head(still_indices))
    ELSE Chosen(stills, Tail(still_indices),
                Append(acc, Subscript(stills, Head(still_indices)).ret))

valid_formats ==
    << <<"d", "p", "x">>, <<"c", "i", "n">>, <<"t", "i", "f">>,
       <<"j", "p", "g">>, <<"p", "n", "g">>, <<"p", "p", "m">>,
       <<"b", "m", "p">>, <<"x", "p", "m">>, <<"d", "r", "x">> >>

Message(t) == Returns(Str(<<t>>), <<>>)

(* export_stills / delete_stills once the album lookup is done: found is   *)
(* whether target_album was set, n the number of stills of the album,     *)
(* accepted what ExportStills / DeleteStills answers.  `sent` is the list *)
(* handed to the application.                                              *)
stills_tool(tool, found, n, still_indices, format, accepted) ==
    LET stills == GetStills(n)
        chosen == Chosen(stills.items, still_indices, <<>>)
        call == IF tool = "export_stills" THEN "ExportStills" ELSE "DeleteStills"
    IN  IF ~found
        THEN [res |-> Message("Error: Album not found"), sent |-> <<>>]
        ELSE IF ~Truthy(stills)
        THEN [res |-> After(Returns(None, <<"GetStills">>),
                            Message("Error: No stills in album")),
              sent |-> <<>>]
        ELSE IF chosen.err # ""
        THEN [res |-> After(Returns(None, <<"GetStills">>), chosen),
              sent |-> <<>>]
        ELSE IF ~Truthy(chosen.ret)
        THEN [res |-> After(Returns(None, <<"GetStills">>),
                            Message("Error: No valid still indices")),
              sent |-> <<>>]
        ELSE IF tool = "export_stills" /\ ~InList(lower(format), valid_formats)
        THEN [res |-> After(Returns(None, <<"GetStills">>),
                            Message("Error: Invalid format")),
              sent |-> <<>>]
        ELSE [res |-> After(Returns(None, <<"GetStills", call>>),
                            Message(IF accepted THEN "Successfully done"
                                    ELSE "Failed")),
              sent |-> chosen.ret.items]

(* The index lists of a request for an album of n stills *)
IndexLists(n) ==
    UNION {[1..k -> (0 - n - 1)..(n + 1)] : k \in 0..MaxIndices}

(* A call of export_stills / delete_stills; the call's record keeps the    *)
(* number of stills, the indices and the stills handed to the application *)
StillsTool(tool, found, n, still_indices, format, accepted) ==
    /\ last = Idle
    /\ LET t == stills_tool(tool, found, n, still_indices, format, accepted)
       IN  last' = [Call(tool, t.res)
                    EXCEPT !.arg = <<n, still_indices, t.sent>>]
    /\ UNCHANGED <<facadeVars, appVars, served>>

----------------------------------------------------------------------------
(* tools: what the endpoints do with a lookup that found nothing *)

(* timeline_item.py: _get_item_by_id(conn, item_id), on the outcome r of   *)
(* conn.find_timeline_item_by_id(item_id)                                  *)
_get_item_by_id(r) ==
    IF r.err # "" THEN r
    ELSE IF ~Truthy(r.ret)
    THEN Raises("ValueError", "Timeline item with ID not found", r.ext)
    ELSE Returns(r.ret.items[1], r.ext)

(* media.py: set_clip_property(clip_name, ...), on the outcome r of        *)
(* conn.find_clip_by_name(clip_name); `accepted` is what SetClipProperty   *)
(* answers                                                                 *)
set_clip_property(r, accepted) ==
    IF r.err # "" THEN r
    ELSE IF ~Truthy(r.ret)
    THEN Returns(Str(<<"Error: ", "Clip not found">>), r.ext)
    ELSE Returns(Str(IF accepted THEN <<"Successfully set">>
                     ELSE <<"Failed to set property">>),
                 Append(r.ext, "SetClipProperty"))

Endpoints == {"_get_item_by_id", "set_clip_property"}

(* The facade helper an endpoint calls *)
Finder(e) ==
    IF e = "_get_item_by_id" THEN "find_timeline_item_by_id"
    ELSE "find_clip_by_name"

Endpoint(e, r, accepted) ==
    IF e = "_get_item_by_id" THEN _get_item_by_id(r)
    ELSE set_clip_property(r, accepted)

(* An endpoint's lookup, run by a caller that holds the connection; the   *)
(* call's record keeps the name or id and what the facade helper gave     *)
EndpointLookup(e, fault, present, arg, accepted) ==
    /\ last = Idle
    /\ returned # {}
    /\ LET r == Helper(Finder(e), _resolve, fault, present, arg)
       IN  last' = [Call(e, Endpoint(e, r, accepted))
                    EXCEPT !.present = present, !.arg = <<arg, r>>]
    /\ UNCHANGED <<facadeVars, appVars, served>>

----------------------------------------------------------------------------
(* decorators.py: validate_params, on a handler                            *)
(* def add_marker(frame, color, note) under                                *)
(* validate_params(color=lambda c: c in VALID_COLORS, frame=lambda f: f >= 0) *)

MaxInt == 1           \* the largest integer passed as an argument

Integer(i) == Obj("int", i, 0)

(* The values a caller passes *)
ArgValues == {None} \cup {Integer(i) : i \in -1..MaxInt}

(* The parameter names of the handler, as inspect.signature lists them *)
Signature == <<"frame", "color", "note">>

VALID_COLORS == {1}

(* validator(value) for the validator registered under a name *)
Validator(name, value) ==
    CASE name = "frame" -> value.id >= 0
      [] name = "color" -> value.id \in VALID_COLORS
      [] OTHER -> TRUE

(* The **validators a handler is decorated with, in their order *)
ValidatorLists ==
    { <<>>, <<"frame">>, <<"color">>, <<"color", "frame">>,
      <<"frame", "color">>, <<"frame", "count">> }

(* The calls of the handler: k positional arguments and keyword arguments *)
(* for some of the other parameters                                        *)
Positionals == UNION {[1..k -> ArgValues] : k \in 0..Len(Signature)}

Keywords(args) ==
    UNION {[S -> ArgValues] :
             S \in SUBSET {Signature[i] : i \in (Len(args) + 1)..Len(Signature)}}

(* full_kwargs = dict(zip(params, args)); full_kwargs.update(kwargs) *)
full_kwargs(args, kwargs) ==
    [n \in {Signature[i] : i \in 1..Len(args)} \cup DOMAIN kwargs |->
        IF n \in DOMAIN kwargs THEN kwargs[n]
        ELSE args[CHOOSE i \in 1..Len(args) : Signature[i] = n]]

(* The validators, by position, whose parameter is in the call with a     *)
(* value that is not None and that the validator rejects                  *)
Rejected(validators, full) ==
    {i \in DOMAIN validators :
        /\ validators[i] \in DOMAIN full
        /\ full[validators[i]] # None
        /\ ~Validator(validators[i], full[validators[i]])}

Least(S) == CHOOSE i \in S : \A j \in S : i <= j

(* The wrapper of validate_params called with args and kwargs: `param`    *)
(* is the parameter named by the exception, `passed` what func was called *)
(* with                                                                    *)
validate_params(validators, args, kwargs, hres) ==
    IF Rejected(validators, full_kwargs(args, kwargs)) # {}
    THEN [res |-> Raises("ValueError", "Invalid value for parameter", <<>>),
          called |-> FALSE, kwargs |-> NoKwargs,
          param |-> validators[Least(Rejected(validators,
                                              full_kwargs(args, kwargs)))],
          passed |-> <<>>]
    ELSE [res |-> Handler(hres), called |-> TRUE, kwargs |-> NoKwargs,
          param |-> "", passed |-> <<args, kwargs>>]

(* A call of the validated handler; the call's record keeps the            *)
(* validators, the arguments, the parameter the exception names and what  *)
(* the handler was called with                                             *)
ValidateParams(validators, args, kwargs, hres) ==
    /\ last = Idle
    /\ LET v == validate_params(validators, args, kwargs, hres)
       IN  last' = [Wrapped("validate_params", v, 0)
                    EXCEPT !.arg = <<validators, args, kwargs, v.param,
                                     v.passed>>]
    /\ UNCHANGED <<facadeVars, appVars, served>>

----------------------------------------------------------------------------
(* The external application and its user *)

AppPages == { <<>>, <<"e", "d", "i", "t">>, <<"c", "o", "l", "o", "r">> }

AppStart ==
    /\ last = Idle
    /\ appSession = 0
    /\ sessions < MaxSessions
    /\ sessions' = sessions + 1
    /\ appSession' = sessions + 1
    /\ UNCHANGED <<last, pool, served>>
    /\ UNCHANGED <<facadeVars, pmOk, curProject, curTimeline, curPage>>

AppQuit ==
    /\ last = Idle
    /\ appSession # 0
    /\ appSession' = 0
    /\ pmOk' = TRUE
    /\ curProject' = 0
    /\ curTimeline' = 0
    /\ curPage' = <<>>
    /\ UNCHANGED <<last, pool, served>>
    /\ UNCHANGED <<facadeVars, sessions>>

ProjectManagerAvailable(b) ==
    /\ last = Idle
    /\ appSession # 0
    /\ pmOk # b
    /\ pmOk' = b
    /\ UNCHANGED <<last, pool, served>>
    /\ UNCHANGED <<facadeVars, appSession, sessions, curProject, curTimeline,
                   curPage>>

OpenProject(p, t) ==
    /\ last = Idle
    /\ appSession # 0
    /\ <<p, t>> # <<curProject, curTimeline>>
    /\ curProject' = p
    /\ curTimeline' = t
    /\ UNCHANGED <<last, pool, served>>
    /\ UNCHANGED <<facadeVars, appSession, sessions, pmOk, curPage>>

CloseProject ==
    /\ last = Idle
    /\ appSession # 0
    /\ curProject # 0
    /\ curProject' = 0
    /\ curTimeline' = 0
    /\ UNCHANGED <<last, pool, served>>
    /\ UNCHANGED <<facadeVars, appSession, sessions, pmOk, curPage>>

UserPage(pg) ==
    /\ last = Idle
    /\ appSession # 0
    /\ pg # curPage
    /\ curPage' = pg
    /\ UNCHANGED <<last, pool, served>>
    /\ UNCHANGED <<facadeVars, appSession, sessions, pmOk, curProject,
                   curTimeline>>

----------------------------------------------------------------------------
(* The caller takes the outcome of the call *)
Return ==
    /\ last # Idle
    /\ last' = Idle
    /\ UNCHANGED <<facadeVars, appVars, served>>

----------------------------------------------------------------------------
(* The system *)

Init ==
    /\ _instance = 0
    /\ _initialized = FALSE
    /\ _resolve = 0
    /\ _connection = 0
    /\ pathsSet = FALSE
    /\ allocated = 0
    /\ initAttempts = 0
    /\ returned = {}
    /\ acquired = 0
    /\ appSession = 0
    /\ sessions = 0
    /\ pmOk = TRUE
    /\ curProject = 0
    /\ curTimeline = 0
    /\ curPage = <<>>
    /\ pool = DefaultPool
    /\ last = Idle
    /\ served = Unserved

Next ==
    \/ \E setup \in SetupOutcomes, o \in ConnectOutcomes : NewConnection(setup, o)
    \/ \E setup \in SetupOutcomes, o \in ConnectOutcomes : get_resolve(setup, o)
    \/ \E o \in ConnectOutcomes : reconnect(o)
    \/ \E prop \in Properties, fault \in Faults :
          \E present \in PresentInputs(prop) : Access(prop, fault, present)
    \/ \E fault \in Faults : GetVersion(fault)
    \/ \E fault \in Faults : GetPage(fault)
    \/ \E page \in PageArgs, fault \in Faults, accepted \in BOOLEAN :
          SwitchPage(page, fault, accepted)
    \/ \E name \in Helpers, fault \in Faults :
          \E present \in PresentInputs(name), arg \in NameArgs(name) :
             Lookup(name, fault, present, arg)
    \/ \E d \in Injectors, setup \in SetupInputs, o \in ConnectInputs,
          fault \in Faults, hres \in HandlerOutcomes :
          \E present \in PresentInputs(d) :
             Decorated(d, setup, o, fault, present, hres)
    \/ \E d \in Injectors, setup \in SetupInputs, o \in ConnectInputs,
          fault \in Faults, hres \in HandlerOutcomes :
          \E present \in PresentInputs(d) :
             Tool(d, setup, o, fault, present, hres)
    \/ \E setup \in SetupInputs, o \in ConnectInputs, page \in PageArgs,
          acc1 \in BOOLEAN, acc2 \in BOOLEAN, hres \in HandlerOutcomes :
          WithPage(setup, o, page, 0, acc1, acc2, hres)
    \/ AppStart
    \/ AppQuit
    \/ \E b \in BOOLEAN : ProjectManagerAvailable(b)
    \/ \E p \in Projects, t \in 0..MaxTimelines : OpenProject(p, t)
    \/ CloseProject
    \/ \E pg \in AppPages : UserPage(pg)
    \/ Return

Spec == Init /\ [][Next]_vars

----------------------------------------------------------------------------
(* The parts of the system: the same operations and the same application,  *)
(* one group of operations at a time                                       *)

(* What happens in the application apart from its pages *)
Application ==
    \/ AppStart
    \/ AppQuit
    \/ \E b \in BOOLEAN : ProjectManagerAvailable(b)
    \/ \E p \in Projects, t \in 0..MaxTimelines : OpenProject(p, t)
    \/ CloseProject

(* connection.py: construction, the properties, the version and the pages *)
NextConnection ==
    \/ \E setup \in SetupOutcomes, o \in ConnectOutcomes : NewConnection(setup, o)
    \/ \E setup \in SetupOutcomes, o \in ConnectOutcomes : get_resolve(setup, o)
    \/ \E o \in ConnectOutcomes : reconnect(o)
    \/ \E prop \in Properties, fault \in Faults :
          \E present \in PresentInputs(prop) : Access(prop, fault, present)
    \/ \E fault \in Faults : GetVersion(fault)
    \/ \E fault \in Faults : GetPage(fault)
    \/ \E page \in PageArgs, fault \in Faults, accepted \in BOOLEAN :
          SwitchPage(page, fault, accepted)
    \/ Application
    \/ \E pg \in AppPages : UserPage(pg)
    \/ Return

SpecConnection == Init /\ [][NextConnection]_vars

(* connection.py: the lookup helpers *)
NextLookup ==
    \/ \E setup \in SetupOutcomes, o \in ConnectOutcomes : get_resolve(setup, o)
    \/ \E o \in ConnectOutcomes : reconnect(o)
    \/ \E name \in Helpers, fault \in Faults :
          \E present \in PresentInputs(name), arg \in NameArgs(name) :
             Lookup(name, fault, present, arg)
    \/ Application
    \/ Return

SpecLookup == Init /\ [][NextLookup]_vars

(* decorators.py: the injecting decorators, bare and under                 *)
(* handle_resolve_errors                                                   *)
NextDecorators ==
    \/ \E o \in ConnectOutcomes : reconnect(o)
    \/ \E d \in Injectors, setup \in SetupInputs, o \in ConnectInputs,
          fault \in Faults, hres \in HandlerOutcomes :
          \E present \in PresentInputs(d) :
             Decorated(d, setup, o, fault, present, hres)
    \/ \E d \in Injectors, setup \in SetupInputs, o \in ConnectInputs,
          fault \in Faults, hres \in HandlerOutcomes :
          \E present \in PresentInputs(d) :
             Tool(d, setup, o, fault, present, hres)
    \/ Application
    \/ Return

SpecDecorators == Init /\ [][NextDecorators]_vars

(* decorators.py: with_page, while the user of the application changes    *)
(* pages                                                                   *)
NextPage ==
    \/ \E o \in ConnectOutcomes : reconnect(o)
    \/ \E setup \in SetupInputs, o \in ConnectInputs, page \in PageArgs,
          fault \in Faults, acc1 \in BOOLEAN, acc2 \in BOOLEAN,
          hres \in HandlerOutcomes :
          WithPage(setup, o, page, fault, acc1, acc2, hres)
    \/ AppStart
    \/ AppQuit
    \/ \E pg \in AppPages : UserPage(pg)
    \/ Return

SpecPage == Init /\ [][NextPage]_vars

(* tools/gallery.py: export_stills and delete_stills *)
NextStills ==
    \/ \E tool \in {"export_stills", "delete_stills"}, found \in BOOLEAN,
          n \in 0..MaxStills, accepted \in BOOLEAN,
          format \in { <<"d", "p", "x">>, <<"P", "N", "G">>, <<"g", "i", "f">> } :
          \E still_indices \in IndexLists(n) :
             StillsTool(tool, found, n, still_indices, format, accepted)
    \/ Return

SpecStills == Init /\ [][NextStills]_vars

(* The tools called before and after quit_resolve *)
NextQuit ==
    \/ \E setup \in SetupOutcomes, o \in ConnectOutcomes : get_resolve(setup, o)
    \/ \E o \in ConnectOutcomes : reconnect(o)
    \/ \E fault \in Faults : QuitResolve(fault)
    \/ Access("is_connected", 0, TRUE)
    \/ \E d \in Injectors, setup \in SetupInputs, o \in ConnectInputs,
          fault \in Faults, hres \in HandlerOutcomes :
          \E present \in PresentInputs(d) :
             Tool(d, setup, o, fault, present, hres)
    \/ Application
    \/ Return

SpecQuit == Init /\ [][NextQuit]_vars

(* decorators.py: the wrappers with two reads, the application going on   *)
(* between the reads                                                       *)
NextReads ==
    \/ \E setup \in SetupOutcomes, o \in ConnectOutcomes : get_resolve(setup, o)
    \/ \E o \in ConnectOutcomes : reconnect(o)
    \/ \E d \in TwoReads : FirstRead(d)
    \/ \E p \in Projects \cup {0}, t \in 0..MaxTimelines : Meanwhile(p, t)
    \/ \E present \in BOOLEAN, hres \in HandlerOutcomes :
          SecondReadAndCall(present, hres)
    \/ Application
    \/ last.op # "reading" /\ Return

SpecReads == Init /\ [][NextReads]_vars

(* The scan helpers of the facade and the endpoints that use them *)
Finders ==
    {"find_clip_by_name", "find_folder_by_name", "find_timeline_item_by_id",
     "find_timeline_by_name"}

NextEndpoint ==
    \/ \E setup \in SetupOutcomes, o \in ConnectOutcomes : get_resolve(setup, o)
    \/ \E o \in ConnectOutcomes : reconnect(o)
    \/ \E name \in Finders, fault \in Faults :
          \E present \in PresentInputs(name), arg \in NameArgs(name) :
             Lookup(name, fault, present, arg)
    \/ \E e \in Endpoints, fault \in Faults, accepted \in BOOLEAN :
          \E present \in PresentInputs(Finder(e)), arg \in NameArgs(Finder(e)) :
             EndpointLookup(e, fault, present, arg, accepted)
    \/ Application
    \/ Return

SpecEndpoint == Init /\ [][NextEndpoint]_vars

(* decorators.py: validate_params *)
NextValidate ==
    \/ \E validators \in ValidatorLists, args \in Positionals,
          hres \in HandlerOutcomes :
          \E kwargs \in Keywords(args) :
             ValidateParams(validators, args, kwargs, hres)
    \/ Return

SpecValidate == Init /\ [][NextValidate]_vars

----------------------------------------------------------------------------
(* A caller that keeps what it read: property reads of one connection     *)
(* while the application's project and timeline change in between         *)

(* The accessors of objects that change with the application's state *)
Requeried ==
    {"project_manager", "current_project", "media_pool", "current_timeline"}

(* The caller takes the outcome of the call and keeps the object it got *)
Take ==
    /\ last # Idle
    /\ last' = Idle
    /\ served' = IF last.op \in Requeried /\ last.res.err = ""
                  THEN [op |-> last.op, ret |-> last.res.ret]
                  ELSE served
    /\ UNCHANGED <<facadeVars, appVars>>

NextServe ==
    \/ \E setup \in SetupOutcomes, o \in ConnectOutcomes : get_resolve(setup, o)
    \/ \E o \in ConnectOutcomes : reconnect(o)
    \/ \E prop \in Requeried, fault \in Faults :
          \E present \in PresentInputs(prop) : Access(prop, fault, present)
    \/ AppStart
    \/ AppQuit
    \/ \E b \in BOOLEAN : ProjectManagerAvailable(b)
    \/ \E p \in Projects, t \in 0..MaxTimelines : OpenProject(p, t)
    \/ CloseProject
    \/ Take

SpecServe == Init /\ [][NextServe]_vars

----------------------------------------------------------------------------
(* The lookup helpers of the media pool, over the media pools the          *)
(* application can have                                                    *)

MaxFolders == 3       \* folders of a media pool, the root included
MaxClips == 2         \* clips of a media pool

(* The elements of a finite set of numbers, ascending or descending *)
Ordered(S, descending) ==
    [i \in 1..Cardinality(S) |->
        CHOOSE x \in S :
            Cardinality({y \in S : y < x}) =
                IF descending THEN Cardinality(S) - i ELSE i - 1]

(* The folder trees on n folders: each folder but the root (1) has a       *)
(* parent among the folders numbered below it                              *)
ParentMaps(n) == {p \in [2..n -> 1..n] : \A f \in 2..n : p[f] < f}

(* A media pool: n folders with parents p, m clips with folders cf; the    *)
(* lists in ascending or descending order; empty lists given as None or    *)
(* as []; clips 1..k named "a" and the others "b"; the root named          *)
(* "Master", folder `alias` named "Root" and the others "bin".             *)
MakePool(n, p, m, cf, descending, absent, k, alias) ==
    [subs |-> [f \in 1..n |-> Ordered({c \in 2..n : p[c] = f}, descending)],
     clips |-> [f \in 1..n |-> Ordered({c \in 1..m : cf[c] = f}, descending)],
     noSubs |-> IF absent THEN {f \in 1..n : \A c \in 2..n : p[c] # f} ELSE {},
     noClips |-> IF absent THEN {f \in 1..n : \A c \in 1..m : cf[c] # f} ELSE {},
     folderNames |-> [f \in 1..n |->
                        IF f = 1 THEN <<"M", "a", "s", "t", "e", "r">>
                        ELSE IF f = alias THEN <<"R", "o", "o", "t">>
                        ELSE <<"b", "i", "n">>],
     clipNames |-> [c \in 1..m |-> IF c <= k THEN <<"a">> ELSE <<"b">>]]

(* A connection to the running application with a project open, and any    *)
(* of the media pools                                                      *)
InitPool ==
    /\ _instance = 1
    /\ _initialized = TRUE
    /\ _resolve = 1
    /\ _connection = 1
    /\ pathsSet = TRUE
    /\ allocated = 1
    /\ initAttempts = 1
    /\ returned = {1}
    /\ acquired = 1
    /\ appSession = 1
    /\ sessions = 1
    /\ pmOk = TRUE
    /\ curProject = 1
    /\ curTimeline = 0
    /\ curPage = <<>>
    /\ \E n \in 1..MaxFolders, m \in 0..MaxClips :
          \E p \in ParentMaps(n), cf \in [1..m -> 1..n],
             descending \in BOOLEAN, absent \in BOOLEAN,
             k \in 0..m, alias \in 1..n :
             pool = MakePool(n, p, m, cf, descending, absent, k, alias)
    /\ last = Idle
    /\ served = Unserved

PoolHelpers ==
    {"get_all_clips", "get_all_folders", "find_clip_by_name",
     "find_folder_by_name"}

NextPool ==
    \/ \E name \in PoolHelpers :
          \E arg \in NameArgs(name) : Lookup(name, 0, TRUE, arg)
    \/ Return

SpecPool == InitPool /\ [][NextPool]_vars

----------------------------------------------------------------------------
(* connection.py: get_all_clips / get_all_folders call by call, on folder  *)
(* graphs that may have a cycle.  A call of the method is a frame: its     *)
(* folder and the position of its for loop in the folder's sub-folder      *)
(* list.  The interpreter raises RecursionError in place of a call that   *)
(* would exceed its recursion limit; the limit is taken deeper than every  *)
(* folder tree of the model.                                               *)

RecursionLimit == MaxFolders + 1

Frame(folder, next) == [folder |-> folder, next |-> next]

(* The traversal in progress: which method, the frames, the folders whose *)
(* call has begun, in order, and how far the traversal is                 *)
Walk(what, stack, folders, status) == <<what, stack, folders, status>>

(* `return clips` / `return folders` of the outermost call *)
WalkResult(what, folders) ==
    IF what = "clips"
    THEN List(Flatten([i \in DOMAIN folders |->
                          OrEmpty(GetClipList(Folder(folders[i])))]))
    ELSE List([i \in DOMAIN folders |-> Folder(folders[i])])

(* A traversal with a visited-set guard: folders already entered are       *)
(* passed over                                                             *)
Recurses_unvisited(sub, folders) == ~InList(sub, folders)

(* The body of the for loop calls the method on every sub-folder *)
Recurses(sub, folders) == TRUE

(* The for loop of a frame moves on to the next sub-folder *)
Advance(frame) == [frame EXCEPT !.next = @ + 1]

(* The outermost call, on the root folder *)
WalkStart(what) ==
    /\ last = Idle
    /\ last' = [Call("walk", Returns(None, <<>>))
                EXCEPT !.arg = Walk(what, <<Frame(RootFolder, 1)>>,
                                    <<RootFolder>>, "running")]
    /\ UNCHANGED <<facadeVars, appVars, served>>

(* The innermost call goes on: it calls itself on its next sub-folder, or  *)
(* the interpreter refuses the call, or its loop is over and it returns   *)
WalkStep ==
    /\ last.op = "walk"
    /\ last.arg[4] = "running"
    /\ LET what == last.arg[1]
           stack == last.arg[2]
           folders == last.arg[3]
           top == stack[Len(stack)]
           subs == OrEmpty(GetSubFolderList(Folder(top.folder)))
       IN  IF top.next <= Len(subs) /\ ~Recurses(subs[top.next].id, folders)
           THEN last' = [last EXCEPT
                   !.arg = Walk(what, [stack EXCEPT ![Len(stack)] = Advance(top)],
                                folders, "running")]
           ELSE IF top.next <= Len(subs)
           THEN IF Len(stack) >= RecursionLimit
                THEN last' = [last EXCEPT
                        !.res = Raises("RecursionError",
                                       "maximum recursion depth exceeded", <<>>),
                        !.arg = Walk(what, <<>>, folders, "RecursionError")]
                ELSE last' = [last EXCEPT
                        !.arg = Walk(what,
                                     Append([stack EXCEPT
                                               ![Len(stack)] = Advance(top)],
                                            Frame(subs[top.next].id, 1)),
                                     Append(folders, subs[top.next].id),
                                     "running")]
           ELSE IF Len(stack) = 1
                THEN last' = [last EXCEPT
                        !.res = Returns(WalkResult(what, folders), <<>>),
                        !.arg = Walk(what, <<>>, folders, "returned")]
                ELSE last' = [last EXCEPT
                        !.arg = Walk(what, SubSeq(stack, 1, Len(stack) - 1),
                                     folders, "running")]
    /\ UNCHANGED <<facadeVars, appVars, served>>

(* The caller takes the outcome of the traversal *)
WalkReturn ==
    /\ last.op = "walk"
    /\ last.arg[4] # "running"
    /\ last' = Idle
    /\ UNCHANGED <<facadeVars, appVars, served>>

(* The traversals call by call, over folder trees and over folder trees    *)
(* with one more sub-folder entry, which may close a cycle                *)

(* A folder tree on n folders with parents p; with extra = <<f, g>>, g is  *)
(* listed once more, last among the sub-folders of f; every folder holds  *)
(* one clip                                                                *)
WalkPool(n, p, extra) ==
    [subs |-> [f \in 1..n |->
                 Ordered({c \in 2..n : p[c] = f}, FALSE)
                 \o (IF extra # <<>> /\ extra[1] = f THEN <<extra[2]>>
                     ELSE <<>>)],
     clips |-> [f \in 1..n |-> <<f>>],
     noSubs |-> {},
     noClips |-> {},
     folderNames |-> [f \in 1..n |-> <<"b", "i", "n">>],
     clipNames |-> [c \in 1..n |-> <<"a">>]]

InitWalk ==
    /\ _instance = 1
    /\ _initialized = TRUE
    /\ _resolve = 1
    /\ _connection = 1
    /\ pathsSet = TRUE
    /\ allocated = 1
    /\ initAttempts = 1
    /\ returned = {1}
    /\ acquired = 1
    /\ appSession = 1
    /\ sessions = 1
    /\ pmOk = TRUE
    /\ curProject = 1
    /\ curTimeline = 0
    /\ curPage = <<>>
    /\ \E n \in 1..MaxFolders :
          \E p \in ParentMaps(n),
             extra \in {<<>>} \cup {<<f, g>> : f \in 1..n, g \in 1..n} :
             pool = WalkPool(n, p, extra)
    /\ last = Idle
    /\ served = Unserved

NextWalk ==
    \/ \E what \in {"clips", "folders"} : WalkStart(what)
    \/ WalkStep
    \/ WalkReturn

(* A call that can go on does go on *)
SpecWalk == InitWalk /\ [][NextWalk]_vars /\ WF_vars(WalkStep)

----------------------------------------------------------------------------
(* Properties of the singleton and of the connect attempts *)

(* C1: every call of get_resolve() and of the constructor returns the same *)
(* single object, and once the first call has been made the initial        *)
(* connect attempt has been performed exactly once.                        *)
C1_OneObjectOneConnect ==
    /\ Cardinality(returned) <= 1
    /\ _instance # 0 => initAttempts = 1

(* C2: get_resolve() never raises, and the singleton it returns after a    *)
(* connect attempt that obtained nothing is not connected.                 *)
C2_GetResolveNeverFails ==
    last.op = "get_resolve" =>
        /\ last.res.err = ""
        /\ acquired = 0 => ~is_connected(_resolve)

(* C3: is_connected is true exactly when the most recent connect attempt   *)
(* obtained a handle from the scripting module.                            *)
C3_ConnectedIffAcquired ==
    is_connected(_resolve) <=> acquired # 0

(* C4: reconnect() runs _connect once and returns is_connected of the new  *)
(* state: true with the handle just acquired cached, false with no handle  *)
(* cached, whatever was cached before.                                     *)
C4_ReconnectResult ==
    last.op = "reconnect" =>
        /\ last.connects = 1
        /\ last.res.err = ""
        /\ last.res.ret = Bool(is_connected(_resolve))
        /\ last.res.ret = Bool(TRUE) => (_resolve = acquired /\ Alive(_resolve))
        /\ last.res.ret = Bool(FALSE) => _resolve = 0

(* A reconnect made while a handle was cached failed and cleared it *)
C4_Witness ==
    /\ last.op = "reconnect"
    /\ last.before # 0
    /\ last.res.ret = Bool(FALSE)
    /\ _resolve = 0

----------------------------------------------------------------------------
(* Properties of the accessors *)

(* The accessors that yield an object of the application *)
DerivedObjects ==
    {"project_manager", "current_project", "media_pool", "current_timeline",
     "media_storage", "gallery"}

(* The accessors that go through the project manager *)
ThroughProjectManager ==
    {"project_manager", "current_project", "media_pool", "current_timeline",
     "gallery"}

(* No call into the application raised during the last call *)
NoFault == last.res.err # "Exception"

C6_AutomaticReconnect ==
    (/\ last.op \in (Properties \ {"is_connected"}) \cup Injectors
     /\ pathsSet
     /\ last.before = 0
     /\ appSession # 0)
        => last.connects > 0

(* C7: with no handle cached, each of resolve, project_manager,            *)
(* current_project, media_pool, current_timeline, media_storage and        *)
(* gallery raises not-connected and calls nothing of the application,      *)
(* whatever project or timeline the application has.                       *)
C7_DisconnectedRaisesNotConnected ==
    (last.op \in DerivedObjects \cup {"resolve"} /\ _resolve = 0) =>
        /\ last.res.err = "NotConnectedError"
        /\ last.res.msg = DefaultMessage("NotConnectedError")
        /\ last.res.ext = <<>>

(* current_timeline read with no handle while the application has a        *)
(* project and a timeline open                                             *)
C7_Witness ==
    /\ last.op = "current_timeline"
    /\ _resolve = 0
    /\ curProject # 0
    /\ curTimeline # 0
    /\ last.res.err = "NotConnectedError"

(* C8: the shallowest missing layer decides the condition.  With a live    *)
(* handle and a project manager: with no project open, current_project,    *)
(* current_timeline and media_pool raise no-project; no-timeline is raised *)
(* only by current_timeline with a project open that has no current        *)
(* timeline, no-media-pool only by media_pool with a project open whose    *)
(* media pool is missing, and in those cases they are raised; the four     *)
(* conditions are four different classes.                                  *)
C8_ShallowestLayerDecides ==
    /\ (/\ last.op \in {"current_project", "current_timeline", "media_pool"}
        /\ Alive(_resolve) /\ pmOk /\ curProject = 0 /\ NoFault)
          => last.res.err = "NoProjectError"
    /\ (last.op \in Properties /\ last.res.err = "NoTimelineError")
          => (last.op = "current_timeline" /\ curProject # 0 /\ curTimeline = 0)
    /\ (last.op \in Properties /\ last.res.err = "NoMediaPoolError")
          => (last.op = "media_pool" /\ curProject # 0 /\ ~last.present)
    /\ (/\ last.op = "current_timeline"
        /\ Alive(_resolve) /\ pmOk /\ curProject # 0 /\ NoFault)
          => (last.res.err = "NoTimelineError" <=> curTimeline = 0)
    /\ (/\ last.op = "media_pool"
        /\ Alive(_resolve) /\ pmOk /\ curProject # 0 /\ NoFault)
          => (last.res.err = "NoMediaPoolError" <=> ~last.present)
    /\ Cardinality({"NotConnectedError", "NoProjectError", "NoTimelineError",
                    "NoMediaPoolError"} \cap ResolveErrors) = 4

(* current_timeline read with a live handle and no project open *)
C8_Witness ==
    /\ last.op = "current_timeline"
    /\ Alive(_resolve) /\ pmOk /\ curProject = 0
    /\ last.res.err = "NoProjectError"

(* C9: no accessor of a derived object returns None: when the application  *)
(* gives no object, the accessor raises.                                   *)
C9_NeverReturnsNone ==
    (last.op \in DerivedObjects /\ last.res.err = "") => last.res.ret # None

(* C10 as stated: with a handle cached no accessor raises not-connected *)
C10_NotConnectedOnlyWithoutHandle ==
    (last.op \in Properties /\ is_connected(_resolve))
        => last.res.err # "NotConnectedError"

(* C10 as the code has it: with a handle cached, not-connected is raised   *)
(* exactly by the accessors that go through the project manager when       *)
(* GetProjectManager() gives nothing, with the message of that failure;    *)
(* a missing project, timeline or media pool never raises it.              *)
C10_NotConnectedOnlyWithoutManager ==
    (last.op \in Properties /\ is_connected(_resolve)) =>
        /\ last.res.err = "NotConnectedError" =>
              /\ last.op \in ThroughProjectManager
              /\ GetProjectManager(_resolve) = None
              /\ last.res.msg = "Failed to get Project Manager"
        /\ (/\ last.op \in ThroughProjectManager
            /\ GetProjectManager(_resolve) = None
            /\ NoFault)
              => last.res.err = "NotConnectedError"

(* current_project read through a live handle whose application gives no   *)
(* project manager                                                         *)
C10_Witness ==
    /\ last.op = "current_project"
    /\ Alive(_resolve)
    /\ ~pmOk
    /\ last.res.err = "NotConnectedError"

----------------------------------------------------------------------------
(* Freshness of the derived objects *)

(* The object the application has now for what accessor `op` reads *)
CurrentObject(op) ==
    CASE op = "project_manager" -> Obj("ProjectManager", 1, appSession)
      [] op = "current_project" -> Obj("Project", curProject, appSession)
      [] op = "media_pool" -> Obj("MediaPool", 1, curProject)
      [] op = "current_timeline" -> Obj("Timeline", curTimeline, curProject)

----------------------------------------------------------------------------
(* Page switching *)

(* C12: switch_page(page) accepts exactly the strings whose lower-cased    *)
(* form is a page name: for those, on a live connection, it forwards the   *)
(* lower-cased name to the application and returns the application's       *)
(* boolean; for every other string it fails with the invalid-parameter     *)
(* condition and calls nothing of the application.                         *)
C12_SwitchPageContract ==
    last.op = "switch_page" =>
        IF InList(lower(last.arg), valid_pages)
        THEN (Alive(_resolve) /\ NoFault) =>
                /\ last.res.err = ""
                /\ last.res.ext = <<"OpenPage">>
                /\ last.res.ret \in {Bool(TRUE), Bool(FALSE)}
        ELSE /\ last.res.err = "InvalidParameterError"
             /\ last.res.ext = <<>>

----------------------------------------------------------------------------
(* The traversals of the media pool *)

(* The folder tree of the pool: parent, ancestors, sub-tree, and the       *)
(* folder that holds a clip                                                *)
ParentOf(f) == CHOOSE g \in DOMAIN pool.subs : InList(f, pool.subs[g])

RECURSIVE Ancestors(_)
Ancestors(f) ==
    IF f = RootFolder THEN {} ELSE {ParentOf(f)} \cup Ancestors(ParentOf(f))

Within(top) == {f \in DOMAIN pool.subs : f = top \/ top \in Ancestors(f)}

FolderOfClip(c) == CHOOSE f \in DOMAIN pool.clips : InList(c, pool.clips[f])

(* The folder a traversal started at, and where it put an object *)
Start == IF last.arg = <<>> THEN RootFolder ELSE last.arg[1]

Pos(x) == CHOOSE i \in DOMAIN last.res.ret.items : last.res.ret.items[i] = x

Once(x) ==
    Cardinality({i \in DOMAIN last.res.ret.items : last.res.ret.items[i] = x}) = 1

(* C13: on every folder tree get_all_clips returns, without error, each    *)
(* clip of the start folder's sub-tree exactly once and nothing else, M    *)
(* entries for the M clips under the root; a folder's own clips in its     *)
(* list's order and before the clips of its descendants, the sub-folders   *)
(* in their list's order; a folder whose clip list or sub-folder list is   *)
(* None adds nothing.                                                      *)
C13_ClipsPreOrder ==
    last.op = "get_all_clips" =>
        LET S == {c \in DOMAIN pool.clipNames : FolderOfClip(c) \in Within(Start)}
        IN  /\ last.res.err = ""
            /\ last.res.ret.kind = "list"
            /\ Len(last.res.ret.items) = Cardinality(S)
            /\ Start = RootFolder => S = DOMAIN pool.clipNames
            /\ \A c \in S : Once(Clip(c))
            /\ \A c, d \in S :
                  FolderOfClip(c) \in Ancestors(FolderOfClip(d))
                     => Pos(Clip(c)) < Pos(Clip(d))
            /\ \A f \in Within(Start) : \A i, j \in DOMAIN pool.clips[f] :
                  i < j => Pos(Clip(pool.clips[f][i])) < Pos(Clip(pool.clips[f][j]))
            /\ \A g \in Within(Start) : \A i, j \in DOMAIN pool.subs[g] :
                  i < j => \A c, d \in S :
                     (/\ FolderOfClip(c) \in Within(pool.subs[g][i])
                      /\ FolderOfClip(d) \in Within(pool.subs[g][j]))
                        => Pos(Clip(c)) < Pos(Clip(d))

(* get_all_clips() from the root of a pool of three nested folders with a  *)
(* clip in the root and one in the innermost folder, whose empty lists     *)
(* are None                                                                *)
C13_Witness ==
    /\ last.op = "get_all_clips"
    /\ last.arg = <<>>
    /\ Len(last.res.ret.items) = 2
    /\ FolderOfClip(1) = 3 /\ FolderOfClip(2) = RootFolder
    /\ Ancestors(3) = {1, 2}
    /\ 2 \in pool.noClips /\ 3 \in pool.noSubs

(* C14: on every folder tree get_all_folders returns the start folder      *)
(* first (the root of the media pool when no folder is given) and then     *)
(* each of its descendants exactly once, every parent before its children  *)
(* and the children in their list's order; a sub-folder list that is None  *)
(* counts as empty.                                                        *)
C14_FoldersPreOrder ==
    last.op = "get_all_folders" =>
        /\ last.res.err = ""
        /\ last.res.ret.kind = "list"
        /\ last.res.ret.items[1] = Folder(Start)
        /\ last.arg = <<>> => Start = RootFolder
        /\ Len(last.res.ret.items) = Cardinality(Within(Start))
        /\ \A f \in Within(Start) : Once(Folder(f))
        /\ \A f \in Within(Start) \ {Start} :
              Pos(Folder(ParentOf(f))) < Pos(Folder(f))
        /\ \A g \in Within(Start) : \A i, j \in DOMAIN pool.subs[g] :
              i < j => \A e \in Within(pool.subs[g][i]),
                          f \in Within(pool.subs[g][j]) :
                          Pos(Folder(e)) < Pos(Folder(f))

(* get_all_folders(folder) from a folder below the root that has a child   *)
(* whose sub-folder list is None                                           *)
C14_Witness ==
    /\ last.op = "get_all_folders"
    /\ last.arg = <<2>>
    /\ Len(last.res.ret.items) = 2
    /\ last.res.ret.items[2] = Folder(3)
    /\ 3 \in pool.noSubs

(* The names of the clips and folders in traversal order from the root *)
AllClips == ClipsFrom(Folder(RootFolder))

AllFolders == FoldersFrom(Folder(RootFolder))

Named(all, name) == {i \in DOMAIN all : GetName(all[i]) = Str(name)}

(* C15: with a project and its media pool available, find_clip_by_name     *)
(* returns the first clip, in the order of get_all_clips(), whose name is  *)
(* exactly the name asked for, and returns None, raising nothing, when no  *)
(* clip of any folder has that name.                                       *)
C15_FirstClipNamed ==
    last.op = "find_clip_by_name" =>
        /\ last.res.err = ""
        /\ Named(AllClips, last.arg) = {} => last.res.ret = None
        /\ Named(AllClips, last.arg) # {} =>
              \E i \in Named(AllClips, last.arg) :
                 /\ last.res.ret = AllClips[i]
                 /\ \A j \in Named(AllClips, last.arg) : i <= j

(* Two clips named "a" in different folders: the one found is the one of   *)
(* the folder traversed first, which is not the clip numbered first        *)
C15_Witness ==
    /\ last.op = "find_clip_by_name"
    /\ last.arg = <<"a">>
    /\ Cardinality(Named(AllClips, <<"a">>)) = 2
    /\ FolderOfClip(1) # FolderOfClip(2)
    /\ last.res.ret = Clip(2)

(* C16: for every folder tree, find_folder_by_name with "root" or          *)
(* "master" in any letter case returns the root folder of the media pool   *)
(* and visits no folder, also when a folder below the root has that very   *)
(* name; for every other name it returns the first folder, in the order    *)
(* of get_all_folders(), whose name is exactly that name, or None.         *)
C16_RootAliasOrFirstFolder ==
    last.op = "find_folder_by_name" =>
        /\ last.res.err = ""
        /\ lower(last.arg) \in RootAliases =>
              /\ last.res.ret = Folder(RootFolder)
              /\ ~InList("GetSubFolderList", last.res.ext)
        /\ (lower(last.arg) \notin RootAliases
               /\ Named(AllFolders, last.arg) = {}) => last.res.ret = None
        /\ (lower(last.arg) \notin RootAliases
               /\ Named(AllFolders, last.arg) # {}) =>
              \E i \in Named(AllFolders, last.arg) :
                 /\ last.res.ret = AllFolders[i]
                 /\ \A j \in Named(AllFolders, last.arg) : i <= j

(* "Root" asked for in a pool where a folder below the root is named       *)
(* "Root": the root folder is returned                                     *)
C16_Witness ==
    /\ last.op = "find_folder_by_name"
    /\ last.arg = <<"R", "o", "o", "t">>
    /\ \E f \in DOMAIN pool.folderNames :
          f # RootFolder /\ pool.folderNames[f] = <<"R", "o", "o", "t">>
    /\ last.res.ret = Folder(RootFolder)

----------------------------------------------------------------------------
(* The scan of the current timeline *)

(* The scan takes video before audio before subtitle *)
ScanRank == [video |-> 1, audio |-> 2, subtitle |-> 3]

(* Where the items of the timeline are: track type, track index, place in  *)
(* the track's list                                                        *)
Slots ==
    UNION { UNION { { <<type, idx, i>> : i \in DOMAIN TrackItems[type][idx] } :
                    idx \in DOMAIN TrackItems[type] } :
            type \in DOMAIN TrackItems }

ItemAt(slot) == TrackItems[slot[1]][slot[2]][slot[3]]

ScannedBefore(a, b) ==
    \/ ScanRank[a[1]] < ScanRank[b[1]]
    \/ a[1] = b[1] /\ a[2] < b[2]
    \/ a[1] = b[1] /\ a[2] = b[2] /\ a[3] < b[3]

WithId(item_id) == {slot \in Slots : UniqueIds[ItemAt(slot)] = item_id}

(* C17: find_timeline_item_by_id scans the video tracks, then the audio    *)
(* tracks, then the subtitle tracks of the current timeline, each type by  *)
(* ascending track index from 1 and each track in list order, a track      *)
(* whose item list is None counting as empty, and returns the first item   *)
(* whose unique id as a string is item_id with the track type and index    *)
(* it was found in: of two items with that id the one scanned earlier;     *)
(* None when no item has it.                                               *)
C17_FirstItemInScanOrder ==
    (last.op = "find_timeline_item_by_id" /\ last.res.err = "") =>
        /\ WithId(last.arg) = {} => last.res.ret = None
        /\ WithId(last.arg) # {} =>
              \E slot \in WithId(last.arg) :
                 /\ \A other \in WithId(last.arg) \ {slot} :
                       ScannedBefore(slot, other)
                 /\ last.res.ret =
                       Tuple(<<Obj("TimelineItem", ItemAt(slot), curTimeline),
                               Str(<<slot[1]>>), Obj("int", slot[2], 0)>>)

(* An id that an item of the second audio track and an item of a subtitle  *)
(* track share, the first audio track having no item list: the audio item  *)
(* is returned with its track                                              *)
C17_Witness ==
    /\ last.op = "find_timeline_item_by_id"
    /\ last.arg = <<"u", "5">>
    /\ Cardinality(WithId(<<"u", "5">>)) = 2
    /\ last.res.ret.kind = "tuple"
    /\ last.res.ret.items[1].id = 5
    /\ last.res.ret.items[2] = Str(<<"audio">>)
    /\ last.res.ret.items[3].id = 2

----------------------------------------------------------------------------
(* The decorators *)

(* C18: a handler under handle_resolve_errors raises nothing to its        *)
(* caller: when the handler ran and returned, the caller gets its return   *)
(* value; when it, or an injector before it, raised a domain error or any  *)
(* other exception, the caller gets the string "Error: " followed by the   *)
(* message of the exception.                                               *)
C18_ErrorsBecomeStrings ==
    last.op = "handle_resolve_errors" =>
        /\ last.res.err = ""
        /\ (last.called /\ last.arg[2] = "returns")
              => last.res.ret = Handler("returns").ret
        /\ (last.called /\ last.arg[2] # "returns")
              => last.res.ret = ErrorString(Handler(last.arg[2]).msg)
        /\ ~last.called =>
              /\ last.res.ret.kind = "str"
              /\ Len(last.res.ret.text) = 2
              /\ last.res.ret.text[1] = "Error: "
        /\ (~last.called /\ pathsSet /\ _resolve = 0)
              => last.res.ret = ErrorString(DefaultMessage("NotConnectedError"))

(* A handler that raised an exception outside the domain errors: the       *)
(* caller got the error string                                             *)
C18_Witness ==
    /\ last.op = "handle_resolve_errors"
    /\ last.called
    /\ last.arg[2] = "exception"
    /\ last.res.err = ""
    /\ last.res.ret = ErrorString("handler failed")

(* The injectors that require an open project *)
ProjectInjectors == {"require_project", "require_timeline", "require_media_pool"}

(* C19: each of the four injectors looks at the connection first: with a   *)
(* facade that is not connected it raises not-connected, calls nothing of  *)
(* the application, injects nothing and does not call the handler,         *)
(* whatever project, timeline or media pool the application has.           *)
C19_ConnectionCheckedFirst ==
    (last.op \in Injectors /\ _connection # 0 /\ ~is_connected(_resolve)) =>
        /\ last.res.err = "NotConnectedError"
        /\ last.res.msg = DefaultMessage("NotConnectedError")
        /\ last.res.ext = <<>>
        /\ ~last.called
        /\ last.kwargs = NoKwargs

(* A handler under require_timeline called on a facade without a handle    *)
(* while the application runs with a project and a timeline open           *)
C19_Witness ==
    /\ last.op = "require_timeline"
    /\ _connection # 0
    /\ _resolve = 0
    /\ appSession # 0 /\ curProject # 0 /\ curTimeline # 0
    /\ last.res.err = "NotConnectedError"
    /\ ~last.called

(* C20: the handler under an injector is called only when every layer the  *)
(* injector requires exists, and is then given conn (all four), project    *)
(* (require_project, require_timeline, require_media_pool), timeline       *)
(* (require_timeline) and media_pool (require_media_pool) and nothing      *)
(* else; on a live connection with no project open the three project       *)
(* injectors fail with no-project, and with a project open                 *)
(* require_timeline fails with no-timeline when there is no current        *)
(* timeline and require_media_pool with no-media-pool when there is no     *)
(* media pool, the handler not being called in any of these cases.         *)
C20_InjectorsNested ==
    last.op \in Injectors =>
        /\ last.called =>
              /\ is_connected(_resolve)
              /\ last.kwargs.conn = Obj("ResolveConnection", _connection, 0)
              /\ last.kwargs.project =
                    IF last.op \in ProjectInjectors
                    THEN Obj("Project", curProject, _resolve) ELSE None
              /\ last.kwargs.timeline =
                    IF last.op = "require_timeline"
                    THEN Obj("Timeline", curTimeline, curProject) ELSE None
              /\ last.kwargs.media_pool =
                    IF last.op = "require_media_pool"
                    THEN Obj("MediaPool", 1, curProject) ELSE None
              /\ last.op \in ProjectInjectors => curProject # 0
              /\ last.op = "require_timeline" => curTimeline # 0
              /\ last.op = "require_media_pool" => last.present
        /\ (/\ last.op \in ProjectInjectors
            /\ Alive(_resolve) /\ pmOk /\ curProject = 0 /\ NoFault)
              => (last.res.err = "NoProjectError" /\ ~last.called)
        /\ (/\ last.op = "require_timeline"
            /\ Alive(_resolve) /\ pmOk /\ curProject # 0 /\ curTimeline = 0
            /\ NoFault)
              => (last.res.err = "NoTimelineError" /\ ~last.called)
        /\ (/\ last.op = "require_media_pool"
            /\ Alive(_resolve) /\ pmOk /\ curProject # 0 /\ ~last.present
            /\ NoFault)
              => (last.res.err = "NoMediaPoolError" /\ ~last.called)

(* A handler under require_timeline called with conn, project and          *)
(* timeline                                                                *)
C20_Witness ==
    /\ last.op = "require_timeline"
    /\ last.called
    /\ last.kwargs.project.id = curProject
    /\ last.kwargs.timeline.id = curTimeline
    /\ curTimeline # 0

----------------------------------------------------------------------------
(* with_page: the record of a call that recorded the page *)

InWithPage == last.op = "with_page" /\ last.arg # <<>>

Target == last.arg[1]

RecordedPage == last.arg[2]

During == last.arg[3]

Trace == last.arg[4]

HandlerOutcome == last.arg[5]

SwitchBack == last.arg[6]

(* The wrapper's calls of switch_page, in order *)
SwitchSteps == SelectSeq(Trace, LAMBDA e : e[1] = "switch_page")

(* The calls of OpenPage that reached the application *)
OpenPages == SelectSeq(last.res.ext, LAMBDA m : m = "OpenPage")

(* C21: when the page recorded by with_page(target) is non-empty and       *)
(* differs from target, the switch back to the recorded page is the        *)
(* wrapper's last step on every exit path (handler returned, handler       *)
(* raised, switch to the target raised); when the handler raised and the   *)
(* switch back returned, the caller gets the handler's exception; and      *)
(* when the switch back succeeded the application is on the recorded page. *)
C21_RestoresOnEveryExit ==
    (InWithPage /\ Truthy(RecordedPage) /\ RecordedPage # Str(Target)) =>
        /\ Trace # <<>>
        /\ Trace[Len(Trace)] = Step("switch_page", RecordedPage.text)
        /\ (last.called /\ HandlerOutcome.err # "" /\ SwitchBack.err = "") =>
              /\ last.res.err = HandlerOutcome.err
              /\ last.res.msg = HandlerOutcome.msg
        /\ SwitchBack = Returns(Bool(TRUE), SwitchBack.ext) =>
              curPage = RecordedPage.text

(* C21 witness: the handler raised on the target page, its exception       *)
(* reached the caller and the application is back on the recorded page     *)
C21_Witness ==
    /\ InWithPage
    /\ Truthy(RecordedPage)
    /\ RecordedPage # Str(Target)
    /\ last.called
    /\ HandlerOutcome.err = "Exception"
    /\ last.res.err = "Exception"
    /\ last.res.msg = "handler failed"
    /\ During = lower(Target)
    /\ During # RecordedPage.text
    /\ curPage = RecordedPage.text

C26_HandlerRunsOnTargetPage ==
    (InWithPage /\ last.called) => During = lower(Target)

----------------------------------------------------------------------------
(* validate_params: the record of a call *)

InValidate == last.op = "validate_params"

(* The arguments as the handler's signature binds them *)
Bound == full_kwargs(last.arg[2], last.arg[3])

(* Some validated parameter is in the call with a value that is not None  *)
(* and that its predicate rejects                                          *)
SomeRejected ==
    \E i \in DOMAIN last.arg[1] :
        /\ last.arg[1][i] \in DOMAIN Bound
        /\ Bound[last.arg[1][i]] # None
        /\ ~Validator(last.arg[1][i], Bound[last.arg[1][i]])

(* C23: a call of a handler under validate_params fails with the           *)
(* invalid-parameter condition (errors.py: InvalidParameterError) without  *)
(* the handler being invoked when the predicate of a validated parameter   *)
(* that is in the call with a value other than None returns false, and     *)
(* otherwise invokes the handler with the original arguments.              *)
C23_ValidateParamsContract ==
    InValidate =>
        IF SomeRejected
        THEN /\ ~last.called
             /\ last.res.err = "InvalidParameterError"
        ELSE /\ last.called
             /\ last.arg[5] = <<last.arg[2], last.arg[3]>>

----------------------------------------------------------------------------
(* Lookups that find nothing *)

(* The conditions errors.py names for a failed lookup *)
NotFoundErrors == {"ClipNotFoundError", "TimelineItemNotFoundError"}

(* What the facade helper gave to the endpoint of the latest call *)
Found == last.arg[2]

(* The lookup of the latest call ran to its end and nothing matches *)
NoMatch ==
    /\ last.res.err = ""
    /\ CASE last.op = "find_clip_by_name" ->
               \A c \in DOMAIN pool.clipNames : pool.clipNames[c] # last.arg
          [] last.op = "find_folder_by_name" ->
               /\ lower(last.arg) \notin RootAliases
               /\ \A f \in DOMAIN pool.folderNames :
                     pool.folderNames[f] # last.arg
          [] last.op = "find_timeline_item_by_id" ->
               \A i \in DOMAIN UniqueIds : UniqueIds[i] # last.arg
          [] last.op = "find_timeline_by_name" ->
               \A i \in DOMAIN TimelineNames : TimelineNames[i] # last.arg
          [] OTHER -> FALSE

(* C24: the facade's scan helpers return None when nothing matches and     *)
(* never raise a not-found condition; an endpoint whose helper returned    *)
(* None raises TimelineItemNotFoundError (item by id) or                   *)
(* ClipNotFoundError (clip by name), and has changed nothing in the        *)
(* application.                                                            *)
C24_NotFoundRaisedByEndpoints ==
    /\ last.op \in Finders =>
          /\ last.res.err \notin NotFoundErrors
          /\ NoMatch => last.res.ret = None
    /\ (last.op \in Endpoints /\ Found.err = "" /\ Found.ret = None) =>
          /\ last.res.err = (IF last.op = "_get_item_by_id"
                             THEN "TimelineItemNotFoundError"
                             ELSE "ClipNotFoundError")
          /\ ~InList("SetClipProperty", last.res.ext)

----------------------------------------------------------------------------
(* The traversals and the shape of the folder graph *)

Walking == last.op = "walk"

WalkStatus == last.arg[4]

Visited == last.arg[3]

SubFolders(f) == {pool.subs[f][i] : i \in DOMAIN pool.subs[f]}

(* The folders reached from the folders of S by k or fewer steps down *)
RECURSIVE Below(_, _)
Below(S, k) ==
    IF k = 0 THEN S
    ELSE Below(S \cup UNION {SubFolders(f) : f \in S}, k - 1)

(* Some folder is below itself *)
CyclicPool ==
    \E f \in DOMAIN pool.subs :
        f \in Below(SubFolders(f), Len(pool.subs))

(* A tree: no cycle, and every folder but the root is listed once *)
TreePool ==
    /\ ~CyclicPool
    /\ \A c \in DOMAIN pool.subs :
          Cardinality({<<f, i>> \in (DOMAIN pool.subs) \X (1..Len(pool.subs)) :
                          i \in DOMAIN pool.subs[f] /\ pool.subs[f][i] = c})
          = (IF c = RootFolder THEN 0 ELSE 1)

(* C25 as stated: on a folder graph with a cycle the traversal never       *)
(* ends                                                                    *)
C25_CycleNeverEnds ==
    (Walking /\ CyclicPool) => WalkStatus = "running"

(* C25: a traversal that is running ends; on a folder tree it returns,     *)
(* having called itself on each folder exactly once, in the order of       *)
(* get_all_folders, with the list of get_all_clips / get_all_folders; on a *)
(* folder graph with a cycle it never returns a list: there is no          *)
(* visited-set guard, the calls nest until the interpreter's recursion     *)
(* limit and the traversal ends with RecursionError.                       *)
C25_TraversalEnds ==
    /\ [](Walking /\ TreePool => WalkStatus # "RecursionError")
    /\ [](Walking /\ TreePool /\ WalkStatus = "returned" =>
            /\ \A f \in DOMAIN pool.subs :
                  Cardinality({i \in DOMAIN Visited : Visited[i] = f}) = 1
            /\ [i \in DOMAIN Visited |-> Folder(Visited[i])]
                  = FoldersFrom(Folder(RootFolder))
            /\ last.arg[1] = "clips" =>
                  last.res.ret = List(ClipsFrom(Folder(RootFolder)))
            /\ last.arg[1] = "folders" =>
                  last.res.ret = List(FoldersFrom(Folder(RootFolder))))
    /\ [](Walking /\ CyclicPool => WalkStatus # "returned")
    /\ (Walking /\ WalkStatus = "running")
          ~> (Walking /\ WalkStatus # "running")

(* C25 witness: on a folder graph with a cycle the traversal has ended     *)
(* with RecursionError, after more calls than there are folders           *)
C25_Witness ==
    /\ Walking
    /\ CyclicPool
    /\ WalkStatus = "RecursionError"
    /\ last.res.err = "RecursionError"
    /\ Len(Visited) > Len(pool.subs)

----------------------------------------------------------------------------
(* C27: in every invocation through require_timeline (require_media_pool)  *)
(* the injected timeline (media pool) is the one of the injected project,  *)
(* whatever the application does between the wrapper's two reads.          *)
C27_InjectedBelongsToProject ==
    (last.op \in TwoReads /\ last.called) =>
        last.kwargs[SecondKey(last.op)].owner = last.kwargs.project.id

----------------------------------------------------------------------------
(* quit_resolve made the application exit and it has not been started     *)
(* again                                                                   *)
AfterQuit ==
    /\ served.op = "quit_resolve"
    /\ appSession = 0
    /\ sessions = served.ret.id

(* C28: after quit_resolve() has made the application exit, is_connected   *)
(* is false and every decorated handler called then returns the            *)
(* not-connected error string without being invoked.                       *)
C28_DisconnectedAfterQuit ==
    AfterQuit =>
        /\ ~is_connected(_resolve)
        /\ last.op = "is_connected" => last.res.ret = Bool(FALSE)
        /\ last.op = "handle_resolve_errors" =>
              /\ ~last.called
              /\ last.res.ret = ErrorString(DefaultMessage("NotConnectedError"))

----------------------------------------------------------------------------
(* C29: every connection object that get_resolve() or the constructor      *)
(* returns has had its path setup completed and exactly one initial        *)
(* connect attempt made on it, also when an earlier construction failed    *)
(* part-way.                                                               *)
C29_ReturnedObjectsInitialised ==
    (last.op \in {"get_resolve", "ResolveConnection"} /\ last.res.err = "") =>
        /\ last.res.ret.id \in returned
        /\ pathsSet
        /\ initAttempts = 1

----------------------------------------------------------------------------
(* export_stills / delete_stills: the record of a call *)

InStills == last.op \in {"export_stills", "delete_stills"}

(* The requested indices i with 0 <= i < number of stills, in the order of *)
(* the request                                                             *)
InRange == SelectSeq(last.arg[2], LAMBDA i : 0 <= i /\ i < last.arg[1])

(* C30: delete_stills and export_stills hand to the application only the   *)
(* stills at the requested indices i with 0 <= i < number of stills; every *)
(* other index, the negative ones included, is skipped; and when no        *)
(* requested index is in range no DeleteStills / ExportStills call is      *)
(* made.                                                                   *)
C30_OnlyInRangeStills ==
    InStills =>
        /\ \A k \in DOMAIN last.arg[3] :
              \E j \in DOMAIN InRange : last.arg[3][k] = Still(InRange[j] + 1)
        /\ InRange = <<>> =>
              /\ ~InList("DeleteStills", last.res.ext)
              /\ ~InList("ExportStills", last.res.ext)

====
